---- MODULE Spec2Model ----
(***************************************************************************)
(* Netlist lowering of a Digital Logic Sim circuit description to          *)
(* Nand2tetris HDL: FixedConverter of src/fixed_converter.py and           *)
(* AdvancedConverter of src/advanced_converter.py.                         *)
(*                                                                         *)
(* Text is modelled as a tuple of one-character strings, so that lower(),  *)
(* capitalize(), split(), replace() and the f-string formatting of numbers *)
(* act on characters as the Python code does.  Python's insertion-ordered  *)
(* dicts are modelled as sequences of [k, v] entries.                      *)
(***************************************************************************)
EXTENDS Integers, Sequences, FiniteSets, TLC

VARIABLES
  data,           \* self.data: the parsed JSON document
  warnings,       \* self.warnings
  chip_name,      \* self.chip_name
  input_pins,     \* self.input_pins   (ordered dict ID -> pin)
  output_pins,    \* self.output_pins  (ordered dict ID -> pin)
  components,     \* self.components   (ordered dict ID -> Component)
  wires,          \* self.wires
  wire_counter,   \* self.wire_counter
  wire_name_map,  \* self.wire_name_map
  hdl,            \* the value returned by each convert() call so far
  resolved,       \* per convert() call, the (wire, name) pairs of _get_wire_source_name
  report          \* the value returned by each generate_detailed_report() call so far

vars == <<data, warnings, chip_name, input_pins, output_pins, components,
          wires, wire_counter, wire_name_map, hdl, resolved, report>>

-----------------------------------------------------------------------------
(* Python str operations on tuples of characters.                          *)

UpperChars == <<"A","B","C","D","E","F","G","H","I","J","K","L","M",
                "N","O","P","Q","R","S","T","U","V","W","X","Y","Z">>
LowerChars == <<"a","b","c","d","e","f","g","h","i","j","k","l","m",
                "n","o","p","q","r","s","t","u","v","w","x","y","z">>
Digits == <<"0","1","2","3","4","5","6","7","8","9">>

\* str.lower() on one character
LowerChar(c) ==
  IF \E i \in DOMAIN UpperChars : UpperChars[i] = c
  THEN LowerChars[CHOOSE i \in DOMAIN UpperChars : UpperChars[i] = c]
  ELSE c

\* str.upper() on one character
UpperChar(c) ==
  IF \E i \in DOMAIN LowerChars : LowerChars[i] = c
  THEN UpperChars[CHOOSE i \in DOMAIN LowerChars : LowerChars[i] = c]
  ELSE c

\* str.lower()
Lower(s) == [i \in DOMAIN s |-> LowerChar(s[i])]

\* str.capitalize(): first character upper-cased, the rest lower-cased
Capitalize(s) == [i \in DOMAIN s |-> IF i = 1 THEN UpperChar(s[i]) ELSE LowerChar(s[i])]

\* str.replace(c, ""): every occurrence of the character c removed
RemoveChar(s, c) == SelectSeq(s, LAMBDA x : x # c)

\* str.split(): the maximal runs of non-blank characters
RECURSIVE SplitFrom(_, _, _)
SplitFrom(s, i, cur) ==
  IF i > Len(s)
  THEN IF cur = <<>> THEN <<>> ELSE <<cur>>
  ELSE IF s[i] = " "
       THEN (IF cur = <<>> THEN <<>> ELSE <<cur>>) \o SplitFrom(s, i + 1, <<>>)
       ELSE SplitFrom(s, i + 1, Append(cur, s[i]))

Split(s) == SplitFrom(s, 1, <<>>)

\* "".join(parts)
RECURSIVE Join(_)
Join(parts) == IF parts = <<>> THEN <<>> ELSE Head(parts) \o Join(Tail(parts))

\* f"{n}" for an integer n >= 0
RECURSIVE IntStr(_)
IntStr(n) == IF n < 10 THEN <<Digits[n + 1]>>
             ELSE IntStr(n \div 10) \o <<Digits[(n % 10) + 1]>>

\* f"{name}[{n}]"
Indexed(name, n) == name \o <<"[">> \o IntStr(n) \o <<"]">>

\* Python's None, where a chip name is expected
None == <<"None">>

-----------------------------------------------------------------------------
(* Ordered dicts.                                                          *)

DictHas(d, k) == \E i \in DOMAIN d : d[i].k = k

DictGet(d, k) == d[CHOOSE i \in DOMAIN d : d[i].k = k].v

\* d[k] = v: an existing key keeps its position
DictPut(d, k, v) ==
  IF DictHas(d, k)
  THEN [i \in DOMAIN d |-> IF d[i].k = k THEN [k |-> k, v |-> v] ELSE d[i]]
  ELSE Append(d, [k |-> k, v |-> v])

\* list(d.keys())
DictKeys(d) == [i \in DOMAIN d |-> d[i].k]

\* {x[key]: x for x in xs}
RECURSIVE DictOf(_, _)
DictOf(xs, d) ==
  IF xs = <<>> THEN d ELSE DictOf(Tail(xs), DictPut(d, Head(xs).ID, Head(xs)))

-----------------------------------------------------------------------------
(* HackChipAPI                                                             *)

CHIPS ==
  {
    [name |-> <<"N","a","n","d">>,
     inputs |-> <<<<"a">>, <<"b">>>>,
     outputs |-> <<<<"o","u","t">>>>],
    [name |-> <<"N","o","t">>,
     inputs |-> <<<<"i","n">>>>,
     outputs |-> <<<<"o","u","t">>>>],
    [name |-> <<"A","n","d">>,
     inputs |-> <<<<"a">>, <<"b">>>>,
     outputs |-> <<<<"o","u","t">>>>],
    [name |-> <<"O","r">>,
     inputs |-> <<<<"a">>, <<"b">>>>,
     outputs |-> <<<<"o","u","t">>>>],
    [name |-> <<"X","o","r">>,
     inputs |-> <<<<"a">>, <<"b">>>>,
     outputs |-> <<<<"o","u","t">>>>],
    [name |-> <<"M","u","x">>,
     inputs |-> <<<<"a">>, <<"b">>, <<"s","e","l">>>>,
     outputs |-> <<<<"o","u","t">>>>],
    [name |-> <<"D","M","u","x">>,
     inputs |-> <<<<"i","n">>, <<"s","e","l">>>>,
     outputs |-> <<<<"a">>, <<"b">>>>],
    [name |-> <<"N","o","t","1","6">>,
     inputs |-> <<<<"i","n">>>>,
     outputs |-> <<<<"o","u","t">>>>],
    [name |-> <<"A","n","d","1","6">>,
     inputs |-> <<<<"a">>, <<"b">>>>,
     outputs |-> <<<<"o","u","t">>>>],
    [name |-> <<"O","r","1","6">>,
     inputs |-> <<<<"a">>, <<"b">>>>,
     outputs |-> <<<<"o","u","t">>>>],
    [name |-> <<"M","u","x","1","6">>,
     inputs |-> <<<<"a">>, <<"b">>, <<"s","e","l">>>>,
     outputs |-> <<<<"o","u","t">>>>],
    [name |-> <<"O","r","8","W","a","y">>,
     inputs |-> <<<<"i","n">>>>,
     outputs |-> <<<<"o","u","t">>>>],
    [name |-> <<"M","u","x","4","W","a","y","1","6">>,
     inputs |-> <<<<"a">>, <<"b">>, <<"c">>, <<"d">>, <<"s","e","l">>>>,
     outputs |-> <<<<"o","u","t">>>>],
    [name |-> <<"M","u","x","8","W","a","y","1","6">>,
     inputs |-> <<<<"a">>, <<"b">>, <<"c">>, <<"d">>, <<"e">>, <<"f">>, <<"g">>, <<"h">>, <<"s","e","l">>>>,
     outputs |-> <<<<"o","u","t">>>>],
    [name |-> <<"D","M","u","x","4","W","a","y">>,
     inputs |-> <<<<"i","n">>, <<"s","e","l">>>>,
     outputs |-> <<<<"a">>, <<"b">>, <<"c">>, <<"d">>>>],
    [name |-> <<"D","M","u","x","8","W","a","y">>,
     inputs |-> <<<<"i","n">>, <<"s","e","l">>>>,
     outputs |-> <<<<"a">>, <<"b">>, <<"c">>, <<"d">>, <<"e">>, <<"f">>, <<"g">>, <<"h">>>>],
    [name |-> <<"H","a","l","f","A","d","d","e","r">>,
     inputs |-> <<<<"a">>, <<"b">>>>,
     outputs |-> <<<<"s","u","m">>, <<"c","a","r","r","y">>>>],
    [name |-> <<"H","a","l","f","a","d","d","e","r">>,
     inputs |-> <<<<"a">>, <<"b">>>>,
     outputs |-> <<<<"s","u","m">>, <<"c","a","r","r","y">>>>],
    [name |-> <<"F","u","l","l","A","d","d","e","r">>,
     inputs |-> <<<<"a">>, <<"b">>, <<"c">>>>,
     outputs |-> <<<<"s","u","m">>, <<"c","a","r","r","y">>>>],
    [name |-> <<"A","d","d","1","6">>,
     inputs |-> <<<<"a">>, <<"b">>>>,
     outputs |-> <<<<"o","u","t">>>>],
    [name |-> <<"I","n","c","1","6">>,
     inputs |-> <<<<"i","n">>>>,
     outputs |-> <<<<"o","u","t">>>>],
    [name |-> <<"A","L","U">>,
     inputs |-> <<<<"x">>, <<"y">>, <<"z","x">>, <<"n","x">>, <<"z","y">>, <<"n","y">>, <<"f">>, <<"n","o">>>>,
     outputs |-> <<<<"o","u","t">>, <<"z","r">>, <<"n","g">>>>],
    [name |-> <<"D","F","F">>,
     inputs |-> <<<<"i","n">>>>,
     outputs |-> <<<<"o","u","t">>>>],
    [name |-> <<"B","i","t">>,
     inputs |-> <<<<"i","n">>, <<"l","o","a","d">>>>,
     outputs |-> <<<<"o","u","t">>>>],
    [name |-> <<"R","e","g","i","s","t","e","r">>,
     inputs |-> <<<<"i","n">>, <<"l","o","a","d">>>>,
     outputs |-> <<<<"o","u","t">>>>],
    [name |-> <<"R","A","M","8">>,
     inputs |-> <<<<"i","n">>, <<"l","o","a","d">>, <<"a","d","d","r","e","s","s">>>>,
     outputs |-> <<<<"o","u","t">>>>],
    [name |-> <<"R","A","M","6","4">>,
     inputs |-> <<<<"i","n">>, <<"l","o","a","d">>, <<"a","d","d","r","e","s","s">>>>,
     outputs |-> <<<<"o","u","t">>>>],
    [name |-> <<"R","A","M","5","1","2">>,
     inputs |-> <<<<"i","n">>, <<"l","o","a","d">>, <<"a","d","d","r","e","s","s">>>>,
     outputs |-> <<<<"o","u","t">>>>],
    [name |-> <<"R","A","M","4","K">>,
     inputs |-> <<<<"i","n">>, <<"l","o","a","d">>, <<"a","d","d","r","e","s","s">>>>,
     outputs |-> <<<<"o","u","t">>>>],
    [name |-> <<"R","A","M","1","6","K">>,
     inputs |-> <<<<"i","n">>, <<"l","o","a","d">>, <<"a","d","d","r","e","s","s">>>>,
     outputs |-> <<<<"o","u","t">>>>],
    [name |-> <<"P","C">>,
     inputs |-> <<<<"i","n">>, <<"l","o","a","d">>, <<"i","n","c">>, <<"r","e","s","e","t">>>>,
     outputs |-> <<<<"o","u","t">>>>]
  }

\* HackChipAPI.is_valid_chip
is_valid_chip(chip) == \E c \in CHIPS : c.name = chip

\* Python's None, where a catalog entry is expected
NoSpec == [name |-> None, inputs |-> <<>>, outputs |-> <<>>]

\* HackChipAPI.get_chip_spec
get_chip_spec(chip) ==
  IF is_valid_chip(chip) THEN CHOOSE c \in CHIPS : c.name = chip ELSE NoSpec

-----------------------------------------------------------------------------
(* Diagnostics: the fields that the warning text is formatted from.        *)

\* f"WARNING: Chip '{name}' nao existe no Hack chip-set. Sera ignorado."
WarnNaoExiste(name) ==
  [kind |-> "nao existe", chip |-> name, id |-> 0, found |-> 0, expected |-> 0]

\* f"WARNING: Chip '{mapped}' nao encontrado na API do Hack chip-set."
WarnNaoEncontrado(mapped) ==
  [kind |-> "nao encontrado", chip |-> mapped, id |-> 0, found |-> 0, expected |-> 0]

\* f"WARNING: {comp.name} (ID {comp.id}): Tem {n} inputs, mas API espera {m}"
WarnInputs(comp, n, m) ==
  [kind |-> "inputs", chip |-> comp.name, id |-> comp.id, found |-> n, expected |-> m]

\* f"WARNING: {comp.name} (ID {comp.id}): Tem {n} outputs, mas API espera {m}"
WarnOutputs(comp, n, m) ==
  [kind |-> "outputs", chip |-> comp.name, id |-> comp.id, found |-> n, expected |-> m]

-----------------------------------------------------------------------------
(* FixedConverter._normalize_chip_name                                     *)

name_map ==
  << [k |-> <<"N","A","N","D">>, v |-> <<"N","a","n","d">>],
     [k |-> <<"N","O","T">>, v |-> <<"N","o","t">>],
     [k |-> <<"A","N","D">>, v |-> <<"A","n","d">>],
     [k |-> <<"O","R">>, v |-> <<"O","r">>],
     [k |-> <<"X","O","R">>, v |-> <<"X","o","r">>],
     [k |-> <<"M","U","X">>, v |-> <<"M","u","x">>],
     [k |-> <<"D","M","U","X">>, v |-> <<"D","M","u","x">>],
     [k |-> <<"8","-","1","B","I","T">>, v |-> None],
     [k |-> <<"1","-","8","B","I","T">>, v |-> None],
     [k |-> <<"S","p","l","i","t","t","e","r","8">>, v |-> None],
     [k |-> <<"B","u","s","8">>, v |-> None] >>

\* lines 130-135: CamelCase when the name has a space, then "-" and "_" removed
CleanName(name) ==
  LET camel == IF \E i \in DOMAIN name : name[i] = " "
               THEN LET parts == Split(name)
                    IN Join([i \in DOMAIN parts |-> Capitalize(parts[i])])
               ELSE name
  IN RemoveChar(RemoveChar(camel, "-"), "_")

\* mapped = name_map.get(name, name)
MappedName(name) ==
  LET n == CleanName(name)
  IN IF DictHas(name_map, n) THEN DictGet(name_map, n) ELSE n

\* the warnings a call appends to self.warnings
NormalizeWarnings(name) ==
  LET mapped == MappedName(name)
  IN IF mapped = None THEN <<WarnNaoExiste(CleanName(name))>>
     ELSE IF ~is_valid_chip(mapped) THEN <<WarnNaoEncontrado(mapped)>>
     ELSE <<>>

\* the value a call returns (None for a removed chip)
NormalizeChipName(name) == MappedName(name)

-----------------------------------------------------------------------------
(* Component, Wire and the indexing of wires                               *)

\* Component.__init__
Component(subchip_data) ==
  [name |-> subchip_data.Name,
   id |-> subchip_data.ID,
   output_pin_ids |-> [i \in DOMAIN subchip_data.OutputPinColourInfo |->
                         subchip_data.OutputPinColourInfo[i].PinID],
   input_wires |-> <<>>,
   output_wires |-> <<>>,
   input_pin_names |-> <<>>,
   output_pin_names |-> <<>>]

\* the registry filled from the last sub-chip to the first
RECURSIVE ComponentsOf_Reversed(_, _)
ComponentsOf_Reversed(subchips, d) ==
  IF subchips = <<>> THEN d
  ELSE DictPut(ComponentsOf_Reversed(Tail(subchips), d),
               Head(subchips).ID, Component(Head(subchips)))

\* {comp.id: comp} over json_data["SubChips"]
RECURSIVE ComponentsOf(_, _)
ComponentsOf(subchips, d) ==
  IF subchips = <<>> THEN d
  ELSE ComponentsOf(Tail(subchips),
                    DictPut(d, Head(subchips).ID, Component(Head(subchips))))

\* defaultdict(list): d[k].append(w)
ListAppend(d, k, w) ==
  IF DictHas(d, k) THEN DictPut(d, k, Append(DictGet(d, k), w))
  ELSE DictPut(d, k, <<w>>)

\* one iteration of the loop of _map_wires_to_components
MapWire(comps, w) ==
  LET c1 == IF DictHas(comps, w.target_owner_id)
            THEN LET comp == DictGet(comps, w.target_owner_id)
                 IN DictPut(comps, comp.id,
                      [comp EXCEPT !.input_wires = ListAppend(@, w.target_pin_id, w)])
            ELSE comps
  IN IF DictHas(c1, w.source_owner_id)
     THEN LET comp == DictGet(c1, w.source_owner_id)
          IN DictPut(c1, comp.id,
               [comp EXCEPT !.output_wires = ListAppend(@, w.source_pin_id, w)])
     ELSE c1

\* FixedConverter._map_wires_to_components (without components no wire is
\* stored anywhere)
RECURSIVE MapWiresToComponents(_, _)
MapWiresToComponents(ws, comps) ==
  IF ws = <<>> \/ comps = <<>> THEN comps
  ELSE MapWiresToComponents(Tail(ws), MapWire(comps, Head(ws)))

-----------------------------------------------------------------------------
(* Pin name inference                                                      *)

\* f"in{idx}" / f"out{idx}"
Numbered(prefix, idx) == prefix \o IntStr(idx)

s_in == <<"i","n">>
s_out == <<"o","u","t">>

\* catalog pin naming with a 1-based number in the fallback of lines 213, 224, 239
CatalogPinName_OneBased(expected, prefix, idx) ==
  IF idx < Len(expected) THEN expected[idx + 1] ELSE Numbered(prefix, idx + 1)

\* lines 210-213 (221-224, 236-239): the name given to the pin at position idx
\* (0-based) of a catalog chip
CatalogPinName(expected, prefix, idx) ==
  IF idx < Len(expected) THEN expected[idx + 1] ELSE Numbered(prefix, idx)

\* catalog pin naming with the pin id itself as the position
RECURSIVE NameCatalogPins_ByPinId(_, _, _, _, _)
NameCatalogPins_ByPinId(pin_ids, expected, prefix, idx, names) ==
  IF idx >= Len(pin_ids) THEN names
  ELSE NameCatalogPins_ByPinId(pin_ids, expected, prefix, idx + 1,
         DictPut(names, pin_ids[idx + 1],
                 CatalogPinName(expected, prefix, pin_ids[idx + 1])))

\* for idx, pin_id in enumerate(pin_ids): names[pin_id] = ...
RECURSIVE NameCatalogPins(_, _, _, _, _)
NameCatalogPins(pin_ids, expected, prefix, idx, names) ==
  IF idx >= Len(pin_ids) THEN names
  ELSE NameCatalogPins(pin_ids, expected, prefix, idx + 1,
         DictPut(names, pin_ids[idx + 1], CatalogPinName(expected, prefix, idx)))

\* generic naming that numbers the first pin too
GenericPinName_AlwaysNumbered(prefix, idx) == Numbered(prefix, idx)

\* the name given to the pin at position idx (0-based) of a custom chip
GenericPinName(prefix, idx) == IF idx > 0 THEN Numbered(prefix, idx) ELSE prefix

RECURSIVE NameGenericPins(_, _, _, _)
NameGenericPins(pin_ids, prefix, idx, names) ==
  IF idx >= Len(pin_ids) THEN names
  ELSE NameGenericPins(pin_ids, prefix, idx + 1,
         DictPut(names, pin_ids[idx + 1], GenericPinName(prefix, idx)))

\* FixedConverter._infer_generic_pin_names
InferGenericPinNames(comp) ==
  [comp EXCEPT
     !.input_pin_names = NameGenericPins(DictKeys(comp.input_wires), s_in, 0, @),
     !.output_pin_names = NameGenericPins(DictKeys(comp.output_wires), s_out, 0, @)]

\* the warning of lines 203-207, if any
InputArityWarnings(comp, chip_spec) ==
  LET n == Len(DictKeys(comp.input_wires))
      m == Len(chip_spec.inputs)
  IN IF n > m THEN <<WarnInputs(comp, n, m)>> ELSE <<>>

\* the warning of lines 229-233, if any
OutputArityWarnings(comp, chip_spec) ==
  LET n == Len(DictKeys(comp.output_wires))
      m == Len(chip_spec.outputs)
  IN IF comp.output_pin_ids = <<>> /\ n > m THEN <<WarnOutputs(comp, n, m)>> ELSE <<>>

\* catalog naming that takes the output pins in wire order even when
\* OutputPinColourInfo is given
InferCatalogPinNames_WireOrder(comp, chip_spec) ==
  [comp EXCEPT
     !.input_pin_names =
        NameCatalogPins(DictKeys(comp.input_wires), chip_spec.inputs, s_in, 0, @),
     !.output_pin_names =
        NameCatalogPins(DictKeys(comp.output_wires), chip_spec.outputs, s_out, 0, @)]

\* the body of the loop of _infer_pin_names for a chip of the catalog
InferCatalogPinNames(comp, chip_spec) ==
  [comp EXCEPT
     !.input_pin_names =
        NameCatalogPins(DictKeys(comp.input_wires), chip_spec.inputs, s_in, 0, @),
     !.output_pin_names =
        NameCatalogPins(IF comp.output_pin_ids # <<>> THEN comp.output_pin_ids
                        ELSE DictKeys(comp.output_wires),
                        chip_spec.outputs, s_out, 0, @)]

\* one iteration of the loop of _infer_pin_names: the component afterwards
InferComp(comp) ==
  LET normalized_name == NormalizeChipName(comp.name)
      chip_spec == get_chip_spec(normalized_name)
  IN IF normalized_name = None THEN comp
     ELSE IF chip_spec = NoSpec THEN InferGenericPinNames(comp)
     ELSE InferCatalogPinNames(comp, chip_spec)

\* one iteration of the loop of _infer_pin_names: the warnings appended
InferWarnings(comp) ==
  LET normalized_name == NormalizeChipName(comp.name)
      chip_spec == get_chip_spec(normalized_name)
  IN NormalizeWarnings(comp.name) \o
     (IF normalized_name = None \/ chip_spec = NoSpec THEN <<>>
      ELSE InputArityWarnings(comp, chip_spec) \o OutputArityWarnings(comp, chip_spec))

\* FixedConverter._infer_pin_names: the components afterwards
InferPinNames(comps) == [i \in DOMAIN comps |-> [comps[i] EXCEPT !.v = InferComp(@)]]

\* FixedConverter._infer_pin_names: the warnings appended, in order
RECURSIVE InferPinWarnings(_)
InferPinWarnings(comps) ==
  IF comps = <<>> THEN <<>>
  ELSE InferWarnings(Head(comps).v) \o InferPinWarnings(Tail(comps))

-----------------------------------------------------------------------------
(* Wire identity                                                           *)

\* identifiers numbered on from the convert() calls already made, as with a
\* counter that outlives a pass
WireName_Shared(counter) == <<"w">> \o IntStr(counter + Len(hdl))

\* identifiers numbered from zero
WireName_ZeroBased(counter) == <<"w">> \o IntStr(counter - 1)

\* f"w{self.wire_counter}"
WireName(counter) == <<"w">> \o IntStr(counter)

\* _get_or_create_wire_name without the membership test of line 253
GetOrCreateWireName_NoLookup(st, comp_id, pin_id) ==
  [st EXCEPT !.wire_counter = @ + 1,
             !.wire_name_map = DictPut(@, <<comp_id, pin_id>>,
                                       WireName(st.wire_counter + 1))]

\* FixedConverter._get_or_create_wire_name: the allocator state afterwards.
\* st is [wire_counter, wire_name_map, resolved].
GetOrCreateWireName(st, comp_id, pin_id) ==
  LET key == <<comp_id, pin_id>>
  IN IF ~DictHas(st.wire_name_map, key)
     THEN [st EXCEPT !.wire_counter = @ + 1,
                     !.wire_name_map = DictPut(@, key, WireName(st.wire_counter + 1))]
     ELSE st

\* the value _get_or_create_wire_name returns, read from the state it leaves
WireNameOf(st, comp_id, pin_id) == DictGet(st.wire_name_map, <<comp_id, pin_id>>)

\* sorted(pin_ids).index(id), the ids being distinct
SortedIndex(pin_ids, id) == Cardinality({x \in pin_ids : x < id})

\* lines 263-273: the name of a top-level input pin as a wire source
WireInputName(ipins, pin) ==
  LET name == Lower(pin.Name)
      same_name_pins == {i \in DOMAIN ipins : ipins[i].v.Name = pin.Name}
      pin_ids == {ipins[i].v.ID : i \in same_name_pins}
      idx == SortedIndex(pin_ids, pin.ID)
  IN IF Cardinality(same_name_pins) > 1 /\ idx > 0 THEN name \o IntStr(idx) ELSE name

\* sub-busing with source_pin_id <= bit_count for the test of line 276
SubBus_Inclusive(name, bit_count, source_pin_id) ==
  IF bit_count > 1 /\ source_pin_id <= bit_count
  THEN Indexed(name, source_pin_id)
  ELSE name

\* lines 275-279: sub-busing
SubBus(name, bit_count, source_pin_id) ==
  IF bit_count > 1 /\ source_pin_id < bit_count
  THEN Indexed(name, source_pin_id)
  ELSE name

s_unknown == <<"u","n","k","n","o","w","n">>

\* FixedConverter._get_wire_source_name: the allocator state afterwards
SourceState(ipins, comps, wire, st) ==
  IF DictHas(ipins, wire.source_owner_id) THEN st
  ELSE IF DictHas(comps, wire.source_owner_id)
       THEN GetOrCreateWireName(st, wire.source_owner_id, wire.source_pin_id)
       ELSE st

\* FixedConverter._get_wire_source_name: the value returned
SourceName(ipins, comps, wire, st) ==
  IF DictHas(ipins, wire.source_owner_id)
  THEN LET pin == DictGet(ipins, wire.source_owner_id)
       IN SubBus(WireInputName(ipins, pin), pin.BitCount, wire.source_pin_id)
  ELSE IF DictHas(comps, wire.source_owner_id)
       THEN WireNameOf(SourceState(ipins, comps, wire, st),
                       wire.source_owner_id, wire.source_pin_id)
       ELSE s_unknown

-----------------------------------------------------------------------------
(* Signature                                                               *)

\* the name of a repeated input with the count itself for the suffix of line 299
DuplicateName_Count(name, count) == name \o IntStr(count)

\* line 299: f"{name}{seen_names[name] - 1}", count being seen_names[name]
DuplicateName(name, count) == name \o IntStr(count - 1)

\* lines 290-301: the disambiguated names of the input pins, in order
RECURSIVE SignatureInputNames(_, _, _)
SignatureInputNames(pins, seen_names, acc) ==
  IF pins = <<>> THEN acc
  ELSE LET name == Lower(Head(pins).v.Name)
       IN IF DictHas(seen_names, name)
          THEN LET seen == DictPut(seen_names, name, DictGet(seen_names, name) + 1)
               IN SignatureInputNames(Tail(pins), seen,
                    Append(acc, DuplicateName(name, DictGet(seen, name))))
          ELSE SignatureInputNames(Tail(pins), DictPut(seen_names, name, 1),
                                   Append(acc, name))

\* lines 303-306 and 313-316: a declaration, with its bus width
Declaration(name, bit_count) ==
  IF bit_count > 1 THEN Indexed(name, bit_count) ELSE name

\* line 310 (and 396): the name of a top-level output pin
OutputPinName(pin) == RemoveChar(Lower(pin.Name), " ")

\* ", ".join(parts)
RECURSIVE JoinComma(_)
JoinComma(parts) ==
  IF parts = <<>> THEN <<>>
  ELSE IF Len(parts) = 1 THEN Head(parts)
  ELSE Head(parts) \o <<",", " ">> \o JoinComma(Tail(parts))

\* in_parts of _generate_hdl_signature
InParts(ipins) ==
  LET names == SignatureInputNames(ipins, <<>>, <<>>)
  IN [i \in DOMAIN ipins |-> Declaration(names[i], ipins[i].v.BitCount)]

\* out_parts of _generate_hdl_signature
OutParts(opins) ==
  [i \in DOMAIN opins |-> Declaration(OutputPinName(opins[i].v), opins[i].v.BitCount)]

\* FixedConverter._generate_hdl_signature
GenerateHdlSignature(ipins, opins) ==
  [in_sig |-> JoinComma(InParts(ipins)), out_sig |-> JoinComma(OutParts(opins))]

-----------------------------------------------------------------------------
(* FixedConverter.convert                                                  *)
(*                                                                         *)
(* The body is kept as one entry per component: kind "part" (line 409),    *)
(* "skipped" (line 341) or "noconn" (line 411), with the connections as    *)
(* [param, expr] pairs.  id, dir and pin record which component and which  *)
(* pin an entry or connection was emitted for; they are not part of the    *)
(* text.  StatementText gives the text of an entry.                        *)

\* line 354: comp.input_pin_names.get(pin_id, f"in{pin_id}")
InputParam(comp, pin_id) ==
  IF DictHas(comp.input_pin_names, pin_id)
  THEN DictGet(comp.input_pin_names, pin_id)
  ELSE Numbered(s_in, pin_id)

\* line 403: comp.output_pin_names.get(pin_id, f"out{pin_id}")
OutputParam(comp, pin_id) ==
  IF DictHas(comp.output_pin_names, pin_id)
  THEN DictGet(comp.output_pin_names, pin_id)
  ELSE Numbered(s_out, pin_id)

\* the connections of the input pins of comp, taking the last wire of a pin
RECURSIVE ConvertInputs_KeepLast(_, _, _, _, _, _)
ConvertInputs_KeepLast(ipins, comps, comp, pin_ids, st, conns) ==
  IF pin_ids = <<>> THEN [st |-> st, conns |-> conns]
  ELSE LET pin_id == Head(pin_ids)
           ws == DictGet(comp.input_wires, pin_id)
           wire == ws[Len(ws)]
           source_name == SourceName(ipins, comps, wire, st)
           st1 == SourceState(ipins, comps, wire, st)
       IN ConvertInputs_KeepLast(ipins, comps, comp, Tail(pin_ids),
            [st1 EXCEPT !.resolved = Append(@, [wire |-> wire, name |-> source_name])],
            Append(conns, [param |-> InputParam(comp, pin_id), expr |-> source_name,
                           dir |-> "in", pin |-> pin_id]))

\* lines 348-355: the connections of the input pins of comp
RECURSIVE ConvertInputs(_, _, _, _, _, _)
ConvertInputs(ipins, comps, comp, pin_ids, st, conns) ==
  IF pin_ids = <<>> THEN [st |-> st, conns |-> conns]
  ELSE LET pin_id == Head(pin_ids)
           ws == DictGet(comp.input_wires, pin_id)
       IN IF ws # <<>>
          THEN LET wire == ws[1]
                   source_name == SourceName(ipins, comps, wire, st)
                   st1 == SourceState(ipins, comps, wire, st)
               IN ConvertInputs(ipins, comps, comp, Tail(pin_ids),
                    [st1 EXCEPT !.resolved =
                                  Append(@, [wire |-> wire, name |-> source_name])],
                    Append(conns, [param |-> InputParam(comp, pin_id),
                                   expr |-> source_name,
                                   dir |-> "in", pin |-> pin_id]))
          ELSE ConvertInputs(ipins, comps, comp, Tail(pin_ids), st, conns)

\* list.index(x)
IndexOf(xs, x) == (CHOOSE i \in DOMAIN xs :
                     xs[i] = x /\ \A j \in DOMAIN xs : xs[j] = x => i <= j) - 1

\* lines 371-374
ConnectsToOutput(opins, ws) ==
  \E i \in DOMAIN ws : DictHas(opins, ws[i].target_owner_id)

\* lines 381-385: the output pin of the first wire that targets one
FirstOutputPin(opins, ws) ==
  LET i == CHOOSE i \in DOMAIN ws :
             /\ DictHas(opins, ws[i].target_owner_id)
             /\ \A j \in DOMAIN ws : DictHas(opins, ws[j].target_owner_id) => i <= j
  IN DictGet(opins, ws[i].target_owner_id)

\* lines 376-401: the allocator state after wire_name is chosen for an output pin
\* (the else of line 397 needs connects_to_output without an output_pin: never)
OutputWireState(opins, cname, comp_id, pin_id, ws, st) ==
  IF ConnectsToOutput(opins, ws)
  THEN LET chip_spec == get_chip_spec(cname)
           output_pin == FirstOutputPin(opins, ws)
           idx == IndexOf([i \in DOMAIN opins |-> opins[i].v], output_pin)
       IN IF chip_spec # NoSpec
          THEN IF idx < Len(chip_spec.outputs) THEN st
               ELSE GetOrCreateWireName(st, comp_id, pin_id)
          ELSE st
  ELSE GetOrCreateWireName(st, comp_id, pin_id)

\* lines 376-401: wire_name
OutputWireName(opins, cname, comp_id, pin_id, ws, st) ==
  IF ConnectsToOutput(opins, ws)
  THEN LET chip_spec == get_chip_spec(cname)
           output_pin == FirstOutputPin(opins, ws)
           idx == IndexOf([i \in DOMAIN opins |-> opins[i].v], output_pin)
       IN IF chip_spec # NoSpec
          THEN IF idx < Len(chip_spec.outputs) THEN chip_spec.outputs[idx + 1]
               ELSE WireNameOf(GetOrCreateWireName(st, comp_id, pin_id), comp_id, pin_id)
          ELSE OutputPinName(output_pin)
  ELSE WireNameOf(GetOrCreateWireName(st, comp_id, pin_id), comp_id, pin_id)

\* lines 359-362
OutputPinIdsOrdered(comp) ==
  IF comp.output_pin_ids # <<>> THEN comp.output_pin_ids
  ELSE DictKeys(comp.output_wires)

\* lines 364-404: the connections of the output pins of comp
RECURSIVE ConvertOutputs(_, _, _, _, _, _)
ConvertOutputs(opins, cname, comp, pin_ids, st, conns) ==
  IF pin_ids = <<>> THEN [st |-> st, conns |-> conns]
  ELSE LET pin_id == Head(pin_ids)
       IN IF ~DictHas(comp.output_wires, pin_id)
          THEN ConvertOutputs(opins, cname, comp, Tail(pin_ids), st, conns)
          ELSE LET ws == DictGet(comp.output_wires, pin_id)
               IN ConvertOutputs(opins, cname, comp, Tail(pin_ids),
                    OutputWireState(opins, cname, comp.id, pin_id, ws, st),
                    Append(conns,
                      [param |-> OutputParam(comp, pin_id),
                       expr |-> OutputWireName(opins, cname, comp.id, pin_id, ws, st),
                       dir |-> "out", pin |-> pin_id]))

\* lines 406-411: the line added for a component that is not skipped
StatementOf(comp, normalized_name, connections) ==
  IF connections # <<>>
  THEN [kind |-> "part", id |-> comp.id, type |-> normalized_name, conns |-> connections]
  ELSE [kind |-> "noconn", id |-> comp.id, type |-> normalized_name, conns |-> <<>>]

\* lines 339-342: the line added for a skipped component
SkippedOf(comp) ==
  [kind |-> "skipped", id |-> comp.id, type |-> comp.name, conns |-> <<>>]

\* lines 336-411: one iteration of the loop over self.components.
\* acc is [st, parts].
ConvertComp(ipins, opins, comps, cname, comp, acc) ==
  LET normalized_name == NormalizeChipName(comp.name)
  IN IF normalized_name = None
     THEN [acc EXCEPT !.parts = Append(@, SkippedOf(comp))]
     ELSE LET ins == ConvertInputs(ipins, comps, comp, DictKeys(comp.input_wires),
                                   acc.st, <<>>)
              outs == ConvertOutputs(opins, cname, comp, OutputPinIdsOrdered(comp),
                                     ins.st, ins.conns)
          IN [st |-> outs.st,
              parts |-> Append(acc.parts, StatementOf(comp, normalized_name, outs.conns))]

\* for comp_id, comp in self.components.items(): every iteration adds one line,
\* so the next component is the one after those that have a line
RECURSIVE ConvertLoop(_, _, _, _, _)
ConvertLoop(ipins, opins, comps, cname, acc) ==
  IF Len(acc.parts) >= Len(comps) THEN acc
  ELSE ConvertLoop(ipins, opins, comps, cname,
                   ConvertComp(ipins, opins, comps, cname,
                               comps[Len(acc.parts) + 1].v, acc))

\* the warnings _normalize_chip_name appends when called once per component
\* (line 337 of convert, line 445 of generate_report)
RECURSIVE RenormalizeWarnings(_)
RenormalizeWarnings(comps) ==
  IF comps = <<>> THEN <<>>
  ELSE NormalizeWarnings(Head(comps).v.name) \o RenormalizeWarnings(Tail(comps))

\* convert() starting from an emptied identifier table, the counter kept
ConvertResult_ClearedTable(json_data, ipins, opins, comps, cname, counter, name_map_) ==
  LET sig == GenerateHdlSignature(ipins, opins)
      acc == ConvertLoop(ipins, opins, comps, cname,
               [st |-> [wire_counter |-> counter, wire_name_map |-> <<>>,
                        resolved |-> <<>>],
                parts |-> <<>>])
  IN [ret |-> [original |-> json_data.Name, chip |-> cname,
               in_sig |-> sig.in_sig, out_sig |-> sig.out_sig,
               parts |-> acc.parts],
      st |-> acc.st]

\* FixedConverter.convert: the value returned and the state left
ConvertResult(json_data, ipins, opins, comps, cname, counter, name_map_) ==
  LET sig == GenerateHdlSignature(ipins, opins)
      acc == ConvertLoop(ipins, opins, comps, cname,
               [st |-> [wire_counter |-> counter, wire_name_map |-> name_map_,
                        resolved |-> <<>>],
                parts |-> <<>>])
  IN [ret |-> [original |-> json_data.Name, chip |-> cname,
               in_sig |-> sig.in_sig, out_sig |-> sig.out_sig,
               parts |-> acc.parts],
      st |-> acc.st]

\* f"{param_name}={source_name}"
ConnText(c) == c.param \o <<"=">> \o c.expr

\* line 409: f"{normalized_name}({conn_str});" (without the indentation)
StatementText(entry) ==
  entry.type \o <<"(">> \o JoinComma([i \in DOMAIN entry.conns |-> ConnText(entry.conns[i])])
             \o <<")", ";">>

\* lines 330-331: f"IN {in_sig}; OUT {out_sig};"
SignatureText(ret) ==
  <<"I","N"," ">> \o ret.in_sig \o <<";"," ","O","U","T"," ">> \o ret.out_sig \o <<";">>

\* lines 341, 409 and 411: the line added for a component (without the
\* indentation, the "ã" of line 341 written "a")
EntryText(entry) ==
  IF entry.kind = "part" THEN StatementText(entry)
  ELSE IF entry.kind = "skipped"
       THEN <<"/","/"," ","S","K","I","P","P","E","D",":"," ">> \o entry.type
            \o <<" ","(","n","a","o"," ","e","x","i","s","t","e"," ","n","o"," ","H","a","c","k"," ","c","h","i","p","-","s","e","t",")">>
       ELSE <<"/","/"," ","W","A","R","N","I","N","G",":"," ">> \o entry.type
            \o <<" ","h","a","s"," ","n","o"," ","c","o","n","n","e","c","t","i","o","n","s">>

\* "\n".join(lines)
RECURSIVE JoinLines(_)
JoinLines(lines) ==
  IF lines = <<>> THEN <<>>
  ELSE IF Len(lines) = 1 THEN Head(lines)
  ELSE Head(lines) \o <<"\n">> \o JoinLines(Tail(lines))

\* f"{self.chip_name}": None is formatted as its name
ChipNameText(cname) == IF cname = None THEN <<"N","o","n","e">> ELSE cname

\* lines 324-415: the text convert() returns (without the indentation)
HdlText(ret) ==
  JoinLines(
    << <<"/","/"," ","C","o","n","v","e","r","t","e","d"," ","f","r","o","m"," ","D","i","g","i","t","a","l"," ","L","o","g","i","c"," ","S","i","m"," ","(","S","e","b","a","s","t","i","a","n"," ","L","a","g","u","e",")">>,
       <<"/","/"," ","O","r","i","g","i","n","a","l"," ","c","h","i","p",":"," ">> \o ret.original,
       <<"/","/"," ","F","i","x","e","d"," ","c","o","n","v","e","r","t","e","r"," ","-"," ","c","o","m","p","l","i","a","n","t"," ","w","i","t","h"," ","N","a","n","d","2","t","e","t","r","i","s"," ","H","D","L"," ","s","p","e","c","i","f","i","c","a","t","i","o","n">>,
       <<>>,
       <<"C","H","I","P"," ">> \o ChipNameText(ret.chip) \o <<" ","{">>,
       <<"I","N"," ">> \o ret.in_sig \o <<";">>,
       <<"O","U","T"," ">> \o ret.out_sig \o <<";">>,
       <<>>,
       <<"P","A","R","T","S",":">> >>
    \o [i \in DOMAIN ret.parts |-> EntryText(ret.parts[i])]
    \o << <<"}">> >>)

-----------------------------------------------------------------------------
(* FixedConverter.__init__                                                 *)

\* the converter built from json_data
FixedConverter(json_data) ==
  LET comps0 == ComponentsOf(json_data.SubChips, <<>>)
      comps1 == MapWiresToComponents(json_data.Wires, comps0)
  IN [data |-> json_data,
      warnings |-> NormalizeWarnings(json_data.Name) \o InferPinWarnings(comps1),
      chip_name |-> NormalizeChipName(json_data.Name),
      input_pins |-> DictOf(json_data.InputPins, <<>>),
      output_pins |-> DictOf(json_data.OutputPins, <<>>),
      components |-> InferPinNames(comps1),
      wires |-> json_data.Wires,
      wire_counter |-> 0,
      wire_name_map |-> <<>>]

-----------------------------------------------------------------------------
(* Input documents (the JSON that main() loads)                            *)

MaxWires == 3       \* wires of a netlist document
MaxPins == 3        \* connected input pins of the component of an arity document
MaxInputPins == 3   \* top-level input pins of a signature document
MaxConverts == 2    \* convert() calls on one converter
MuxBits == 8        \* the bus width of the MUX-16 example

Pin(name, id, bit_count) == [Name |-> name, ID |-> id, BitCount |-> bit_count]
SubChip(name, id, colour) == [Name |-> name, ID |-> id, OutputPinColourInfo |-> colour]
Wire(so, sp, to, tp) ==
  [source_owner_id |-> so, source_pin_id |-> sp,
   target_owner_id |-> to, target_pin_id |-> tp]
Document(name, ins, outs, subs, ws) ==
  [Name |-> name, InputPins |-> ins, OutputPins |-> outs, SubChips |-> subs, Wires |-> ws]

SeqsUpTo(S, n) == UNION {[1..k -> S] : k \in 0..n}
Injective(s) == \A i, j \in DOMAIN s : s[i] = s[j] => i = j

s_NOT == <<"N","O","T">>
s_AND == <<"A","N","D">>
s_MUX == <<"M","U","X">>
s_Bus8 == <<"B","u","s","8">>
s_Adder == <<"A","d","d","e","r">>
s_MUX16 == <<"M","U","X","-","1","6">>
s_DMUX == <<"D","M","U","X">>
s_8_1BIT == <<"8","-","1","B","I","T">>
s_1_8BIT == <<"1","-","8","B","I","T">>
s_A == <<"A">>
s_B == <<"B">>
s_SEL == <<"S","E","L">>
s_OUT == <<"O","U","T">>
s_Q == <<"Q">>
s_IN == <<"I","N">>
s_IN1 == <<"I","N","1">>

\* Netlists: two components (a catalog chip of one or two inputs, a removed
\* chip or a custom chip each), wired from a top-level input, from the first
\* component or from an owner that is in no registry.
TypeNames == {s_NOT, s_AND, s_Bus8, s_Adder}
NetSources == {<<1, 0>>, <<100, 0>>, <<999, 0>>}
NetTargets == {<<101, 0>>, <<101, 1>>, <<4, 0>>}
\* (only a component drives the top-level output)
NetWires ==
  {w \in {Wire(s[1], s[2], t[1], t[2]) : s \in NetSources, t \in NetTargets} :
     w.target_owner_id = 4 => w.source_owner_id = 100}

NetDocument(t1, t2, ws) ==
  Document(s_MUX16, <<Pin(s_A, 1, 1)>>, <<Pin(s_OUT, 4, 1)>>,
           <<SubChip(t1, 100, <<>>), SubChip(t2, 101, <<>>)>>, ws)

\* Arity: one catalog component whose input pins 0..MaxPins-1 are wired in any order.
ArityPinOrders == {s \in SeqsUpTo(0..(MaxPins - 1), MaxPins) : Injective(s)}

ArityDocument(t, tps) ==
  Document(s_MUX16, <<Pin(s_A, 1, 1)>>, <<Pin(s_OUT, 4, 1)>>,
           <<SubChip(t, 101, <<>>)>>,
           [i \in DOMAIN tps |-> Wire(1, 0, 101, tps[i])])

\* Pass-through: a component output wired to top-level outputs, in a module
\* whose own name is or is not a chip of the catalog.
ModuleNames == {s_MUX16, s_AND}
PassOutputPins ==
  {s \in SeqsUpTo({Pin(s_OUT, 4, 1), Pin(s_Q, 5, 1)}, 2) : s # <<>> /\ Injective(s)}
PassWires == {Wire(1, 0, 100, 0), Wire(100, 0, 4, 0), Wire(100, 0, 5, 0), Wire(100, 0, 101, 0)}

PassDocument(name, outs, ws) ==
  Document(name, <<Pin(s_A, 1, 1)>>, outs,
           <<SubChip(s_NOT, 100, <<>>), SubChip(s_NOT, 101, <<>>)>>, ws)

\* The MUX-16 example with every instance wired: instance i takes A[i], B[i]
\* and SEL[0] on its pins 0, 1 and 2 and drives OUT[i] from its pin 3.
MuxWires(i) ==
  <<Wire(1, i, 100 + i, 0), Wire(2, i, 100 + i, 1), Wire(3, 0, 100 + i, 2),
    Wire(100 + i, 3, 4, i)>>

RECURSIVE MuxAllWires(_)
MuxAllWires(n) == IF n = 0 THEN <<>> ELSE MuxAllWires(n - 1) \o MuxWires(n - 1)

MuxDocument(name) ==
  Document(name,
           <<Pin(s_A, 1, MuxBits), Pin(s_B, 2, MuxBits), Pin(s_SEL, 3, 1)>>,
           <<Pin(s_OUT, 4, MuxBits)>>,
           [i \in 1..MuxBits |-> SubChip(s_MUX, 99 + i, <<>>)],
           MuxAllWires(MuxBits))

\* Declared outputs: a component of two output pins (a catalog chip of two
\* outputs, a custom chip or a bus helper) whose OutputPinColourInfo names
\* none, one or both of the pins in either order, wired to the input pins of
\* a second component in any order.
OutTypes == {s_DMUX, s_Adder, s_8_1BIT, s_1_8BIT}
OutPinIds == {5, 2}
OutColourInfos ==
  {[i \in DOMAIN s |-> [PinID |-> s[i]]] :
     s \in {t \in SeqsUpTo(OutPinIds, 2) : Injective(t)}}
OutWires == {Wire(100, 2, 101, 0), Wire(100, 5, 101, 0), Wire(100, 5, 101, 1)}

OutDocument(name, t, colour, ws) ==
  Document(name, <<Pin(s_A, 1, 1)>>, <<Pin(s_OUT, 4, 1)>>,
           <<SubChip(t, 100, colour), SubChip(s_NOT, 101, <<>>)>>, ws)

\* Signatures: up to MaxInputPins top-level input pins, whose names repeat,
\* differ in letter case or end in a digit, registered in any order of their
\* ids, and one wire from the i-th of them.
PinNames == {s_IN, Lower(s_IN), s_IN1}
BitCounts == {1, MuxBits}
SourcePinIds == {0, 3, MuxBits}

SigDocument(names, ids, bc, i, sp) ==
  Document(s_MUX16, [k \in DOMAIN names |-> Pin(names[k], ids[k], bc)],
           <<Pin(s_OUT, 9, 1)>>, <<SubChip(s_NOT, 100, <<>>)>>,
           <<Wire(ids[i], sp, 100, 0)>>)

-----------------------------------------------------------------------------
(* The converter as a state machine                                        *)

\* converter = FixedConverter(json_data)
Constructed(json_data) ==
  LET c == FixedConverter(json_data)
  IN /\ data = c.data
     /\ warnings = c.warnings
     /\ chip_name = c.chip_name
     /\ input_pins = c.input_pins
     /\ output_pins = c.output_pins
     /\ components = c.components
     /\ wires = c.wires
     /\ wire_counter = c.wire_counter
     /\ wire_name_map = c.wire_name_map
     /\ hdl = <<>>
     /\ resolved = <<>>
     /\ report = <<>>

Init ==
  \/ \E t1 \in TypeNames, t2 \in TypeNames, ws \in SeqsUpTo(NetWires, MaxWires) :
       Constructed(NetDocument(t1, t2, ws))
  \/ \E t \in {s_NOT, s_AND}, tps \in ArityPinOrders :
       Constructed(ArityDocument(t, tps))
  \/ \E name \in ModuleNames, outs \in PassOutputPins,
        ws \in SeqsUpTo(PassWires, MaxWires) :
       Constructed(PassDocument(name, outs, ws))
  \/ \E name \in ModuleNames : Constructed(MuxDocument(name))
  \/ \E name \in ModuleNames, t \in OutTypes, colour \in OutColourInfos,
        ws \in SeqsUpTo(OutWires, MaxWires) :
       Constructed(OutDocument(name, t, colour, ws))

InitSig ==
  \E n \in 1..MaxInputPins :
    \E names \in [1..n -> PinNames],
       ids \in {s \in [1..n -> 1..MaxInputPins] : Injective(s)},
       bc \in BitCounts, i \in 1..n, sp \in SourcePinIds :
      Constructed(SigDocument(names, ids, bc, i, sp))

\* converter.convert()
Convert ==
  /\ Len(hdl) < MaxConverts
  /\ LET r == ConvertResult(data, input_pins, output_pins, components, chip_name,
                            wire_counter, wire_name_map)
     IN /\ hdl' = Append(hdl, r.ret)
        /\ resolved' = Append(resolved, r.st.resolved)
        /\ wire_counter' = r.st.wire_counter
        /\ wire_name_map' = r.st.wire_name_map
  /\ warnings' = warnings \o RenormalizeWarnings(components)
  /\ UNCHANGED <<data, chip_name, input_pins, output_pins, components, wires, report>>

Next == Convert

Spec == Init /\ [][Next]_vars

SpecSig == InitSig /\ [][Next]_vars

-----------------------------------------------------------------------------
(* AdvancedConverter of src/advanced_converter.py.  It keeps the same      *)
(* attributes as FixedConverter except warnings, which it does not have    *)
(* (the variable stays empty), and it has a second operation,              *)
(* generate_detailed_report().                                             *)

MaxReports == 1     \* generate_detailed_report() calls on one converter

\* Component.__init__ (no document here has a "Label")
AdvComponent(subchip_data) ==
  [name |-> subchip_data.Name,
   id |-> subchip_data.ID,
   label |-> <<>>,
   input_connections |-> <<>>,
   output_connections |-> <<>>]

\* lines 41-44: self.components[comp.id] = comp, in the order of SubChips
RECURSIVE AdvComponentsOf(_, _)
AdvComponentsOf(subchips, d) ==
  IF subchips = <<>> THEN d
  ELSE AdvComponentsOf(Tail(subchips),
                       DictPut(d, Head(subchips).ID, AdvComponent(Head(subchips))))

\* lines 56-62: one wire is stored at its target (the pin's previous wire is
\* replaced) and appended to the list of its source pin
AdvMapWire(comps, w) ==
  LET c1 == [i \in DOMAIN comps |->
               IF comps[i].k = w.target_owner_id
               THEN [comps[i] EXCEPT
                       !.v.input_connections = DictPut(@, w.target_pin_id, w)]
               ELSE comps[i]]
  IN [i \in DOMAIN c1 |->
        IF c1[i].k = w.source_owner_id
        THEN [c1[i] EXCEPT
                !.v.output_connections = ListAppend(@, w.source_pin_id, w)]
        ELSE c1[i]]

\* _map_connections
RECURSIVE AdvMapConnections(_, _)
AdvMapConnections(ws, comps) ==
  IF ws = <<>> THEN comps
  ELSE AdvMapConnections(Tail(ws), AdvMapWire(comps, Head(ws)))

\* AdvancedConverter(json_data)
AdvancedConverter(json_data) ==
  [data |-> json_data,
   chip_name |-> RemoveChar(json_data.Name, "-"),
   input_pins |-> DictOf(json_data.InputPins, <<>>),
   output_pins |-> DictOf(json_data.OutputPins, <<>>),
   components |-> AdvMapConnections(json_data.Wires,
                                    AdvComponentsOf(json_data.SubChips, <<>>)),
   wires |-> json_data.Wires,
   wire_counter |-> 0,
   wire_name_map |-> <<>>]

\* the name_map of _normalize_chip_name
adv_name_map ==
  << [k |-> s_8_1BIT, v |-> <<"S","p","l","i","t","t","e","r","8">>],
     [k |-> s_1_8BIT, v |-> s_Bus8],
     [k |-> s_MUX, v |-> <<"M","u","x">>],
     [k |-> s_AND, v |-> <<"A","n","d">>],
     [k |-> <<"O","R">>, v |-> <<"O","r">>],
     [k |-> s_NOT, v |-> <<"N","o","t">>],
     [k |-> <<"N","A","N","D">>, v |-> <<"N","a","n","d">>],
     [k |-> <<"X","O","R">>, v |-> <<"X","o","r">>] >>

\* _normalize_chip_name: name_map.get(name, name)
AdvNormalizeChipName(name) ==
  IF DictHas(adv_name_map, name) THEN DictGet(adv_name_map, name) ELSE name

s_a == <<"a">>
s_b == <<"b">>
s_sel == <<"s","e","l">>

TwoInputGate ==
  [in |-> << [k |-> 0, v |-> s_a], [k |-> 1, v |-> s_b] >>,
   out |-> << [k |-> 2, v |-> s_out] >>]

\* the mappings of _get_chip_pin_mapping
mappings ==
  << [k |-> <<"N","A","N","D">>, v |-> TwoInputGate],
     [k |-> s_AND, v |-> TwoInputGate],
     [k |-> <<"O","R">>, v |-> TwoInputGate],
     [k |-> s_NOT, v |-> [in |-> << [k |-> 0, v |-> s_in] >>,
                          out |-> << [k |-> 1, v |-> s_out] >>]],
     [k |-> <<"X","O","R">>, v |-> TwoInputGate],
     [k |-> s_MUX, v |-> [in |-> << [k |-> 0, v |-> s_a], [k |-> 1, v |-> s_b],
                                    [k |-> 2, v |-> s_sel] >>,
                          out |-> << [k |-> 3, v |-> s_out] >>]] >>

\* _get_chip_pin_mapping: mappings.get(chip_name, {"in": {}, "out": {}})
AdvChipPinMapping(chip) ==
  IF DictHas(mappings, chip) THEN DictGet(mappings, chip)
  ELSE [in |-> <<>>, out |-> <<>>]

\* _get_component_pin_name
AdvComponentPinName(comp, pin_id, is_output) ==
  LET pin_map == AdvChipPinMapping(comp.name)
      of_direction == IF is_output THEN pin_map.out ELSE pin_map.in
      prefix == IF is_output THEN s_out ELSE s_in
  IN IF DictHas(of_direction, pin_id) THEN DictGet(of_direction, pin_id)
     ELSE IF pin_id = 0 THEN prefix ELSE prefix \o IntStr(pin_id)

\* _get_or_create_wire_name: the table and the counter it leaves
AdvGetOrCreateWireName(st, comp_id, pin_id) ==
  IF DictHas(st.wire_name_map, <<comp_id, pin_id>>) THEN st
  ELSE [wire_counter |-> st.wire_counter + 1,
        wire_name_map |-> Append(st.wire_name_map,
                                 [k |-> <<comp_id, pin_id>>,
                                  v |-> <<"w">> \o IntStr(st.wire_counter + 1)])]

\* _get_or_create_wire_name: the identifier it returns
AdvWireNameOf(st, comp_id, pin_id) ==
  DictGet(AdvGetOrCreateWireName(st, comp_id, pin_id).wire_name_map,
          <<comp_id, pin_id>>)

\* lines 132-146: the name of a wire that starts at a top-level input pin
AdvInputSourceName(ipins, wire) ==
  LET pin == DictGet(ipins, wire.source_owner_id)
      name == Lower(pin.Name)
      same_name == {i \in DOMAIN ipins : ipins[i].v.Name = pin.Name}
      idx == (CHOOSE i \in DOMAIN ipins :
                /\ ipins[i].v.ID = pin.ID
                /\ \A j \in DOMAIN ipins : ipins[j].v.ID = pin.ID => i <= j) - 1
      numbered == IF Cardinality(same_name) > 1 THEN name \o IntStr(idx) ELSE name
  IN IF pin.BitCount > 1 /\ wire.source_pin_id < pin.BitCount
     THEN Indexed(numbered, wire.source_pin_id)
     ELSE numbered

\* _get_wire_source_name: the table and the counter it leaves
AdvSourceState(ipins, comps, wire, st) ==
  IF DictHas(ipins, wire.source_owner_id) THEN st
  ELSE IF DictHas(comps, wire.source_owner_id)
       THEN AdvGetOrCreateWireName(st, wire.source_owner_id, wire.source_pin_id)
       ELSE st

\* _get_wire_source_name: the name it returns
AdvSourceName(ipins, comps, wire, st) ==
  IF DictHas(ipins, wire.source_owner_id) THEN AdvInputSourceName(ipins, wire)
  ELSE IF DictHas(comps, wire.source_owner_id)
       THEN AdvWireNameOf(st, wire.source_owner_id, wire.source_pin_id)
       ELSE s_unknown

\* lines 171-174 and 181-184: a name with its bus width
AdvDeclaration(name, bit_count) ==
  IF bit_count > 1 THEN Indexed(name, bit_count) ELSE name

\* lines 157-174: in_parts
RECURSIVE AdvInParts(_, _, _)
AdvInParts(pins, seen_names, in_parts) ==
  IF pins = <<>> THEN in_parts
  ELSE LET pin == Head(pins).v
           name == Lower(pin.Name)
           seen == DictHas(seen_names, name)
           count == IF seen THEN DictGet(seen_names, name) + 1 ELSE 1
           declared == IF seen THEN name \o IntStr(count - 1) ELSE name
       IN AdvInParts(Tail(pins), DictPut(seen_names, name, count),
                     Append(in_parts, AdvDeclaration(declared, pin.BitCount)))

\* lines 176-184: out_parts
AdvOutParts(opins) ==
  [i \in DOMAIN opins |->
     AdvDeclaration(Lower(opins[i].v.Name), opins[i].v.BitCount)]

\* _generate_hdl_signature
AdvGenerateHdlSignature(ipins, opins) ==
  [in_sig |-> JoinComma(AdvInParts(ipins, <<>>, <<>>)),
   out_sig |-> JoinComma(AdvOutParts(opins))]

\* lines 213-216: the input parameters of a component, in the order of its
\* input_connections
RECURSIVE AdvConvertInputs(_, _, _, _, _, _)
AdvConvertInputs(ipins, comps, comp, conns, st, connections) ==
  IF conns = <<>> THEN [st |-> st, connections |-> connections]
  ELSE LET pin_id == Head(conns).k
           wire == Head(conns).v
           source_name == AdvSourceName(ipins, comps, wire, st)
           param_name == AdvComponentPinName(comp, pin_id, FALSE)
       IN AdvConvertInputs(ipins, comps, comp, Tail(conns),
                           AdvSourceState(ipins, comps, wire, st),
                           Append(connections, param_name \o <<"=">> \o source_name))

\* lines 221-224: any(w.target_owner_id in self.output_pins for w in wires_list)
AdvConnectsToOutput(opins, wires_list) ==
  \E i \in DOMAIN wires_list : DictHas(opins, wires_list[i].target_owner_id)

\* lines 228-232: the output pin of the first wire that ends at one
AdvFirstOutputPin(opins, wires_list) ==
  LET i == CHOOSE k \in DOMAIN wires_list :
             /\ DictHas(opins, wires_list[k].target_owner_id)
             /\ \A j \in DOMAIN wires_list :
                  DictHas(opins, wires_list[j].target_owner_id) => k <= j
  IN DictGet(opins, wires_list[i].target_owner_id)

\* lines 219-243: the output parameters of a component, in the order of its
\* output_connections (a pin record is never empty, so line 234 holds)
RECURSIVE AdvConvertOutputs(_, _, _, _, _)
AdvConvertOutputs(opins, comp, conns, st, connections) ==
  IF conns = <<>> THEN [st |-> st, connections |-> connections]
  ELSE LET pin_id == Head(conns).k
           wires_list == Head(conns).v
           connects_to_output == AdvConnectsToOutput(opins, wires_list)
           wire_name == IF connects_to_output
                        THEN Lower(AdvFirstOutputPin(opins, wires_list).Name)
                        ELSE AdvWireNameOf(st, comp.id, pin_id)
           param_name == AdvComponentPinName(comp, pin_id, TRUE)
       IN AdvConvertOutputs(opins, comp, Tail(conns),
                            IF connects_to_output THEN st
                            ELSE AdvGetOrCreateWireName(st, comp.id, pin_id),
                            Append(connections, param_name \o <<"=">> \o wire_name))

\* lines 246-250: the line of a component
AdvStatement(comp, connections) ==
  LET chip_type == AdvNormalizeChipName(comp.name)
  IN IF connections # <<>>
     THEN <<" "," "," "," ">> \o chip_type \o <<"(">> \o JoinComma(connections)
          \o <<")",";">>
     ELSE <<" "," "," "," ">> \o chip_type
          \o <<"(",".",".",".",")",";"," "," ","/","/"," ","T","O","D","O",":"," ","m","a","p"," ","c","o","n","n","e","c","t","i","o","n","s">>

\* lines 205-250: the components from the i-th on
RECURSIVE AdvConvertLoop(_, _, _, _, _)
AdvConvertLoop(ipins, opins, comps, i, acc) ==
  IF i > Len(comps) THEN acc
  ELSE LET comp == comps[i].v
           ins == AdvConvertInputs(ipins, comps, comp, comp.input_connections,
                                   acc.st, <<>>)
           outs == AdvConvertOutputs(opins, comp, comp.output_connections,
                                     ins.st, ins.connections)
       IN AdvConvertLoop(ipins, opins, comps, i + 1,
                         [st |-> outs.st,
                          lines |-> Append(acc.lines, AdvStatement(comp, outs.connections))])

\* AdvancedConverter.convert: the text returned and the state left
AdvConvertResult(json_data, ipins, opins, comps, cname, counter, name_map_) ==
  LET sig == AdvGenerateHdlSignature(ipins, opins)
      acc == AdvConvertLoop(ipins, opins, comps, 1,
               [st |-> [wire_counter |-> counter, wire_name_map |-> name_map_],
                lines |-> <<>>])
  IN [ret |-> JoinLines(
                << <<"/","/"," ","C","o","n","v","e","r","t","e","d"," ","f","r","o","m"," ","D","i","g","i","t","a","l"," ","L","o","g","i","c"," ","S","i","m"," ","(","S","e","b","a","s","t","i","a","n"," ","L","a","g","u","e",")">>,
                   <<"/","/"," ","O","r","i","g","i","n","a","l"," ","c","h","i","p",":"," ">> \o json_data.Name,
                   <<>>,
                   <<"C","H","I","P"," ">> \o cname \o <<" ","{">>,
                   <<" "," "," "," ","I","N"," ">> \o sig.in_sig \o <<";">>,
                   <<" "," "," "," ","O","U","T"," ">> \o sig.out_sig \o <<";">>,
                   <<>>,
                   <<" "," "," "," ","P","A","R","T","S",":">> >>
                \o acc.lines
                \o << <<"}">> >>),
      st |-> acc.st]

\* "=" * 70
Rule == [i \in 1..70 |-> "="]

\* f"{pin['BitCount']} bit(s)" lines of the report (lines 266-272)
ReportPinLines(pins) ==
  [i \in DOMAIN pins |->
     <<" "," ","[">> \o IntStr(pins[i].k) \o <<"]"," ">> \o pins[i].v.Name
       \o <<":"," ">> \o IntStr(pins[i].v.BitCount)
       \o <<" ","b","i","t","(","s",")">>]

\* lines 282-285: the input lines of a component (the arrow written "<-")
RECURSIVE ReportInputs(_, _, _, _, _, _)
ReportInputs(ipins, comps, comp, conns, st, lines) ==
  IF conns = <<>> THEN [st |-> st, lines |-> lines]
  ELSE LET pin_id == Head(conns).k
           wire == Head(conns).v
           source == AdvSourceName(ipins, comps, wire, st)
           pin_name == AdvComponentPinName(comp, pin_id, FALSE)
       IN ReportInputs(ipins, comps, comp, Tail(conns),
                       AdvSourceState(ipins, comps, wire, st),
                       Append(lines, <<" "," "," "," "," "," ">> \o pin_name
                                       \o <<" ","<","-"," ">> \o source))

\* lines 291-298: the targets of the wires of one output pin
RECURSIVE ReportTargets(_, _, _, _)
ReportTargets(opins, comps, ws, targets) ==
  IF ws = <<>> THEN targets
  ELSE LET w == Head(ws)
       IN ReportTargets(opins, comps, Tail(ws),
            IF DictHas(opins, w.target_owner_id)
            THEN Append(targets, <<"O","U","T","P","U","T">>)
            ELSE IF DictHas(comps, w.target_owner_id)
                 THEN LET target_comp == DictGet(comps, w.target_owner_id)
                      IN Append(targets,
                                target_comp.name \o <<"#">> \o IntStr(w.target_owner_id)
                                  \o <<".">>
                                  \o AdvComponentPinName(target_comp, w.target_pin_id, FALSE))
                 ELSE targets)

\* lines 290-300: the output lines of a component (the arrow written "->")
ReportOutputs(opins, comps, comp) ==
  [i \in DOMAIN comp.output_connections |->
     <<" "," "," "," "," "," ">>
       \o AdvComponentPinName(comp, comp.output_connections[i].k, TRUE)
       \o <<" ","-",">"," ">>
       \o JoinComma(ReportTargets(opins, comps, comp.output_connections[i].v, <<>>))]

\* lines 276-300: the components from the i-th on
RECURSIVE ReportLoop(_, _, _, _, _)
ReportLoop(ipins, opins, comps, i, acc) ==
  IF i > Len(comps) THEN acc
  ELSE LET comp == comps[i].v
           ins == ReportInputs(ipins, comps, comp, comp.input_connections,
                               acc.st, <<>>)
       IN ReportLoop(ipins, opins, comps, i + 1,
            [st |-> ins.st,
             lines |-> acc.lines
               \o << <<" "," ","[">> \o IntStr(comps[i].k) \o <<"]"," ">> \o comp.name >>
               \o (IF comp.input_connections # <<>>
                   THEN << <<" "," "," "," ","I","n","p","u","t","s",":">> >> \o ins.lines
                   ELSE <<>>)
               \o (IF comp.output_connections # <<>>
                   THEN << <<" "," "," "," ","O","u","t","p","u","t","s",":">> >>
                        \o ReportOutputs(opins, comps, comp)
                   ELSE <<>>)])

\* AdvancedConverter.generate_detailed_report: the text returned and the state
\* left (accented letters written without their accent)
ReportResult(json_data, ipins, opins, comps, counter, name_map_) ==
  LET acc == ReportLoop(ipins, opins, comps, 1,
               [st |-> [wire_counter |-> counter, wire_name_map |-> name_map_],
                lines |-> <<>>])
  IN [ret |-> JoinLines(
                << Rule,
                   <<"R","E","L","A","T","O","R","I","O"," ","D","E"," ","C","O","N","V","E","R","S","A","O",":"," ">> \o json_data.Name,
                   Rule,
                   <<>>,
                   <<"E","N","T","R","A","D","A","S",":">> >>
                \o ReportPinLines(ipins)
                \o << <<"\n","S","A","I","D","A","S",":">> >>
                \o ReportPinLines(opins)
                \o << <<"\n","C","O","M","P","O","N","E","N","T","E","S"," ","(">>
                        \o IntStr(Len(comps)) \o <<")",":">> >>
                \o acc.lines
                \o << <<"\n">> \o Rule >>),
      st |-> acc.st]

\* Documents for AdvancedConverter: a gate or a custom chip and an inverter,
\* wired from the top-level input, to the top-level output and to each other;
\* two of the wires end at the same input pin.
AdvTypes == {s_AND, s_Adder}
AdvWires ==
  {Wire(1, 0, 100, 0), Wire(100, 0, 101, 0), Wire(100, 1, 101, 0),
   Wire(100, 1, 101, 1), Wire(101, 0, 100, 1), Wire(100, 0, 4, 0)}

AdvDocument(t, ws) ==
  Document(s_MUX16, <<Pin(s_A, 1, 1)>>, <<Pin(s_OUT, 4, 1)>>,
           <<SubChip(t, 100, <<>>), SubChip(s_NOT, 101, <<>>)>>, ws)

\* converter = AdvancedConverter(json_data)
ConstructedAdv(json_data) ==
  LET c == AdvancedConverter(json_data)
  IN /\ data = c.data
     /\ warnings = <<>>
     /\ chip_name = c.chip_name
     /\ input_pins = c.input_pins
     /\ output_pins = c.output_pins
     /\ components = c.components
     /\ wires = c.wires
     /\ wire_counter = c.wire_counter
     /\ wire_name_map = c.wire_name_map
     /\ hdl = <<>>
     /\ resolved = <<>>
     /\ report = <<>>

InitAdv ==
  \E t \in AdvTypes, ws \in SeqsUpTo(AdvWires, MaxWires) :
    ConstructedAdv(AdvDocument(t, ws))

\* converter.generate_detailed_report()
GenerateDetailedReport ==
  /\ Len(report) < MaxReports
  /\ LET r == ReportResult(data, input_pins, output_pins, components,
                           wire_counter, wire_name_map)
     IN /\ report' = Append(report, r.ret)
        /\ wire_counter' = r.st.wire_counter
        /\ wire_name_map' = r.st.wire_name_map
  /\ UNCHANGED <<data, warnings, chip_name, input_pins, output_pins, components,
                 wires, hdl, resolved>>

\* converter.convert() of an AdvancedConverter
AdvConvert ==
  /\ Len(hdl) < MaxConverts
  /\ LET r == AdvConvertResult(data, input_pins, output_pins, components,
                               chip_name, wire_counter, wire_name_map)
     IN /\ hdl' = Append(hdl, r.ret)
        /\ wire_counter' = r.st.wire_counter
        /\ wire_name_map' = r.st.wire_name_map
  /\ UNCHANGED <<data, warnings, chip_name, input_pins, output_pins, components,
                 wires, resolved, report>>

NextAdv == GenerateDetailedReport \/ AdvConvert

SpecAdv == InitAdv /\ [][NextAdv]_vars

-----------------------------------------------------------------------------
(* Properties                                                              *)

\* the line that convert() call h emitted for the component id
EntryOf(h, id) ==
  hdl[h].parts[CHOOSE i \in DOMAIN hdl[h].parts : hdl[h].parts[i].id = id]

\* the indices of the wires of the document whose source is (owner, pin)
WiresFrom(owner, pin) ==
  {j \in DOMAIN data.Wires : /\ data.Wires[j].source_owner_id = owner
                             /\ data.Wires[j].source_pin_id = pin}

\* the ids of the components of the document
ComponentIds == {data.SubChips[i].ID : i \in DOMAIN data.SubChips}

\* the (component, pin) pairs that are the source of a wire
SourceKeys ==
  {<<data.Wires[j].source_owner_id, data.Wires[j].source_pin_id>> :
     j \in {k \in DOMAIN data.Wires : data.Wires[k].source_owner_id \in ComponentIds}}

\* the calls of _get_wire_source_name, as <<convert call, position>>, on wires
\* whose source is (owner, pin)
ResolvedCalls(owner, pin) ==
  UNION {{<<h, j>> : j \in {k \in DOMAIN resolved[h] :
                              /\ resolved[h][k].wire.source_owner_id = owner
                              /\ resolved[h][k].wire.source_pin_id = pin}} :
         h \in DOMAIN resolved}

ResolvedNames(owner, pin) ==
  {resolved[c[1]][c[2]].name : c \in ResolvedCalls(owner, pin)}

\* C1: for a component output pin that is the source of two or more wires,
\* every call of _get_wire_source_name on those wires returns the same string,
\* the string is the one identifier stored for the (component, pin) key, the key
\* has one entry, and the counter has advanced once per stored identifier.
C1_FanOutIdentity ==
  \A key \in SourceKeys :
    Cardinality(WiresFrom(key[1], key[2])) >= 2 =>
      /\ Cardinality(ResolvedNames(key[1], key[2])) <= 1
      /\ ResolvedNames(key[1], key[2]) # {} =>
           /\ Cardinality({j \in DOMAIN wire_name_map : wire_name_map[j].k = key}) = 1
           /\ ResolvedNames(key[1], key[2]) = {DictGet(wire_name_map, key)}
           /\ wire_counter = Len(wire_name_map)

\* C1 witness: a convert() call resolved two different wires of one component output pin
C1_Witness ==
  \E key \in SourceKeys : \E h \in DOMAIN resolved : \E j, k \in DOMAIN resolved[h] :
    /\ j # k
    /\ resolved[h][j].wire # resolved[h][k].wire
    /\ <<h, j>> \in ResolvedCalls(key[1], key[2])
    /\ <<h, k>> \in ResolvedCalls(key[1], key[2])
    /\ resolved[h][j].name = WireName(1)

\* "Mux(a=a[i], b=b[i], sel=sel, out=out[i]);"
MuxStatement(i) ==
  <<"M","u","x","(","a","=","a","[">> \o IntStr(i) \o
  <<"]",","," ","b","=","b","[">> \o IntStr(i) \o
  <<"]",","," ","s","e","l","=","s","e","l",","," ","o","u","t","=","o","u","t","[">>
  \o IntStr(i) \o <<"]",")",";">>

\* "IN a[8], b[8], sel; OUT out[8];"
MuxSignature ==
  <<"I","N"," ","a","[","8","]",","," ","b","[","8","]",","," ","s","e","l",";"," ",
    "O","U","T"," ","o","u","t","[","8","]",";">>

\* C2: for the 8-bit MUX example with every instance wired, convert() yields the
\* signature "IN a[8], b[8], sel; OUT out[8];", eight statements in ascending
\* instance order, the i-th "Mux(a=a[i], b=b[i], sel=sel, out=out[i]);", and
\* allocates no internal identifier.
C2_EndToEnd ==
  \A h \in DOMAIN hdl :
    data = MuxDocument(data.Name) =>
      /\ SignatureText(hdl[h]) = MuxSignature
      /\ Len(hdl[h].parts) = MuxBits
      /\ \A i \in 1..MuxBits :
           /\ hdl[h].parts[i].id = 99 + i
           /\ hdl[h].parts[i].kind = "part"
           /\ StatementText(hdl[h].parts[i]) = MuxStatement(i - 1)
      /\ wire_name_map = <<>>

\* the number of warnings equal to w
CountWarnings(w) == Cardinality({j \in DOMAIN warnings : warnings[j] = w})

\* C3: after construction and one convert(), an instance whose type normalizes
\* to a removed alias has no instantiation statement and the warnings hold one
\* unsupported-type warning per such instance (the warning names the type).
C3_UnsupportedOnce ==
  Len(hdl) = 1 =>
    \A i \in DOMAIN data.SubChips :
      LET sc == data.SubChips[i]
          same == {k \in DOMAIN data.SubChips : data.SubChips[k].Name = sc.Name}
      IN NormalizeChipName(sc.Name) = None =>
           /\ EntryOf(1, sc.ID).kind = "skipped"
           /\ CountWarnings(WarnNaoExiste(CleanName(sc.Name))) = Cardinality(same)

\* C4: the name _get_wire_source_name uses for an input pin is the name that
\* _generate_hdl_signature declares for it.
C4_WireNameIsDeclaredName ==
  \A h \in DOMAIN hdl : \A i \in DOMAIN input_pins :
    WireInputName(input_pins, input_pins[i].v)
      = SignatureInputNames(input_pins, <<>>, <<>>)[i]

\* the top-level output pins that the wires from (owner, pin) target
OutputTargets(owner, pin) ==
  {data.Wires[j].target_owner_id : j \in WiresFrom(owner, pin)}
    \cap {data.OutputPins[i].ID : i \in DOMAIN data.OutputPins}

\* C5: a component output pin wired to a top-level output pin is bound, in the
\* statement of its component, to that output pin's own name, and no
\* identifier is stored for it unless a component also consumes it.
C5_PassThroughElision ==
  \A h \in DOMAIN hdl : \A key \in SourceKeys :
    LET outs == OutputTargets(key[1], key[2])
        sc == data.SubChips[CHOOSE i \in DOMAIN data.SubChips :
                              data.SubChips[i].ID = key[1]]
    IN (Cardinality(outs) = 1 /\ NormalizeChipName(sc.Name) # None) =>
         LET pin == DictGet(output_pins, CHOOSE o \in outs : TRUE)
             e == EntryOf(h, key[1])
         IN /\ \E c \in DOMAIN e.conns :
                 /\ e.conns[c].dir = "out"
                 /\ e.conns[c].pin = key[2]
                 /\ e.conns[c].expr = OutputPinName(pin)
            /\ (\A j \in WiresFrom(key[1], key[2]) :
                  data.Wires[j].target_owner_id \notin ComponentIds)
                 => ~DictHas(wire_name_map, key)

\* the lower-cased name of the i-th input pin, numbered by the earlier pins of
\* that lower-cased name
ExpectedInputName(i) ==
  LET name == Lower(data.InputPins[i].Name)
      earlier == {j \in 1..(i - 1) : Lower(data.InputPins[j].Name) = name}
  IN IF earlier = {} THEN name ELSE name \o IntStr(Cardinality(earlier))

\* C6: in the signature that convert() returns, the first input pin of a name
\* (as emitted, in lower case) is declared bare and the N-th one, N >= 2, is
\* declared <name><N-1>, in registration order.
C6_DuplicateNames ==
  \A h \in DOMAIN hdl :
    hdl[h].in_sig =
      JoinComma([i \in DOMAIN data.InputPins |->
                   Declaration(ExpectedInputName(i), data.InputPins[i].BitCount)])

\* C6 witness: two input pins named IN, ids 1 and 2 in that order, declared in and in1
C6_Witness ==
  /\ Len(hdl) >= 1
  /\ [i \in DOMAIN data.InputPins |-> <<data.InputPins[i].Name, data.InputPins[i].ID>>]
       = <<<<s_IN, 1>>, <<s_IN, 2>>>>
  /\ data.InputPins[1].BitCount = 1
  /\ hdl[1].in_sig = <<"i","n",","," ","i","n","1">>

\* C7: a wire from a top-level input pin resolves to name[sourcePinId] exactly
\* when bitWidth > 1 and sourcePinId < bitWidth, and to the bare name otherwise.
C7_BitIndexRule ==
  \A h \in DOMAIN resolved : \A j \in DOMAIN resolved[h] :
    LET w == resolved[h][j].wire
    IN DictHas(input_pins, w.source_owner_id) =>
         LET pin == DictGet(input_pins, w.source_owner_id)
             name == WireInputName(input_pins, pin)
             indexed == name \o <<"[">> \o IntStr(w.source_pin_id) \o <<"]">>
         IN /\ (resolved[h][j].name = indexed)
                 <=> (pin.BitCount > 1 /\ w.source_pin_id < pin.BitCount)
            /\ resolved[h][j].name # indexed => resolved[h][j].name = name

\* C7 witness: a wire from bit 3 of an 8-bit input was resolved to name[3]
C7_Witness ==
  \E h \in DOMAIN resolved : \E j \in DOMAIN resolved[h] :
    LET w == resolved[h][j].wire
    IN /\ DictHas(input_pins, w.source_owner_id)
       /\ DictGet(input_pins, w.source_owner_id).BitCount = 8
       /\ w.source_pin_id = 3
       /\ resolved[h][j].name =
            WireInputName(input_pins, DictGet(input_pins, w.source_owner_id))
              \o <<"[","3","]">>

\* the components of the document that no wire touches
Unconnected ==
  {i \in DOMAIN data.SubChips :
     \A j \in DOMAIN data.Wires :
       /\ data.Wires[j].source_owner_id # data.SubChips[i].ID
       /\ data.Wires[j].target_owner_id # data.SubChips[i].ID}

\* C8: a component that is not skipped and has no connection is emitted as a
\* stub without parameters, and the warnings hold an empty-connections
\* diagnostic for it.
C8_EmptyConnections ==
  \A h \in DOMAIN hdl : \A i \in Unconnected :
    LET sc == data.SubChips[i]
    IN NormalizeChipName(sc.Name) # None =>
         /\ EntryOf(h, sc.ID).kind = "noconn"
         /\ EntryOf(h, sc.ID).conns = <<>>
         /\ \E j \in DOMAIN warnings :
              /\ warnings[j].id = sc.ID
              /\ warnings[j].kind \notin {"nao existe", "nao encontrado", "inputs", "outputs"}

\* the owner ids of the three registries
RegisteredIds ==
  ComponentIds \cup {data.InputPins[i].ID : i \in DOMAIN data.InputPins}
               \cup {data.OutputPins[i].ID : i \in DOMAIN data.OutputPins}

\* C9: a wire whose source owner is in no registry binds its parameter to
\* "unknown", a diagnostic for it is in the warnings, and every component
\* still has its line.
C9_UnresolvedOwner ==
  \A h \in DOMAIN resolved : \A j \in DOMAIN resolved[h] :
    LET w == resolved[h][j].wire
    IN w.source_owner_id \notin RegisteredIds =>
         /\ resolved[h][j].name = s_unknown
         /\ \E c \in DOMAIN EntryOf(h, w.target_owner_id).conns :
              LET conn == EntryOf(h, w.target_owner_id).conns[c]
              IN conn.dir = "in" /\ conn.pin = w.target_pin_id /\ conn.expr = s_unknown
         /\ {hdl[h].parts[i].id : i \in DOMAIN hdl[h].parts} = ComponentIds
         /\ \E k \in DOMAIN warnings :
              warnings[k].kind \notin {"nao existe", "nao encontrado", "inputs", "outputs"}

\* the distinct target pins of the wires into the component id, in the order
\* in which the wire list first names them
RECURSIVE FirstSeenPins(_, _, _)
FirstSeenPins(ws, id, seen) ==
  IF ws = <<>> THEN seen
  ELSE LET w == Head(ws)
       IN IF w.target_owner_id = id /\ \A i \in DOMAIN seen : seen[i] # w.target_pin_id
          THEN FirstSeenPins(Tail(ws), id, Append(seen, w.target_pin_id))
          ELSE FirstSeenPins(Tail(ws), id, seen)

\* C10: for a component of a catalog type with M inputs and N > M connected
\* input pins, the k-th first-seen pin (from 0, k >= M) is the parameter in<k>
\* of its statement, and the warnings hold one input arity warning for it.
C10_ArityOverflow ==
  \A i \in DOMAIN data.SubChips :
    LET sc == data.SubChips[i]
        type == NormalizeChipName(sc.Name)
        pins == FirstSeenPins(data.Wires, sc.ID, <<>>)
        M == Len(get_chip_spec(type).inputs)
        N == Len(pins)
    IN (type # None /\ is_valid_chip(type) /\ N > M) =>
         /\ Cardinality({j \in DOMAIN warnings :
                           warnings[j].kind = "inputs" /\ warnings[j].id = sc.ID}) = 1
         /\ CountWarnings(WarnInputs([name |-> sc.Name, id |-> sc.ID], N, M)) = 1
         /\ \A h \in DOMAIN hdl : \A k \in M..(N - 1) :
              /\ Len(EntryOf(h, sc.ID).conns) >= k + 1
              /\ EntryOf(h, sc.ID).conns[k + 1].dir = "in"
              /\ EntryOf(h, sc.ID).conns[k + 1].pin = pins[k + 1]
              /\ EntryOf(h, sc.ID).conns[k + 1].param = <<"i","n">> \o IntStr(k)

\* C10 witness: an And (two inputs) with three connected input pins was
\* converted, and its third parameter is in2
C10_Witness ==
  \E i \in DOMAIN data.SubChips :
    /\ Len(hdl) >= 1
    /\ NormalizeChipName(data.SubChips[i].Name) = <<"A","n","d">>
    /\ Len(FirstSeenPins(data.Wires, data.SubChips[i].ID, <<>>)) = 3
    /\ EntryOf(1, data.SubChips[i].ID).conns[3].param = <<"i","n","2">>

\* the ids of the sub-chips of the document, in document order
SubChipIds == [i \in DOMAIN data.SubChips |-> data.SubChips[i].ID]

\* C11: the body that convert() returns has one entry per registered
\* component, in the order of the registry (the order of the sub-chips of the
\* document), and the entry of a component is a skip marker exactly when its
\* type is removed: the components after a skipped one keep their entries.
C11_StatementOrder ==
  \A h \in DOMAIN hdl :
    /\ [i \in DOMAIN hdl[h].parts |-> hdl[h].parts[i].id] = DictKeys(components)
    /\ DictKeys(components) = SubChipIds
    /\ \A i \in DOMAIN hdl[h].parts :
         /\ hdl[h].parts[i].kind \in {"part", "skipped", "noconn"}
         /\ hdl[h].parts[i].kind = "skipped"
              <=> NormalizeChipName(data.SubChips[i].Name) = None

\* C11 witness: the first component was skipped and the second, after it, has
\* its instantiation statement
C11_Witness ==
  /\ Len(hdl) >= 1
  /\ Len(data.SubChips) = 2
  /\ hdl[1].parts[1].kind = "skipped"
  /\ hdl[1].parts[1].id = data.SubChips[1].ID
  /\ hdl[1].parts[2].kind = "part"
  /\ hdl[1].parts[2].id = data.SubChips[2].ID

\* a lowering pass of its own over a document: FixedConverter(json_data) and
\* one convert(), giving the text returned and the warnings left
LoweringPass(json_data) ==
  LET c == FixedConverter(json_data)
      r == ConvertResult(json_data, c.input_pins, c.output_pins, c.components,
                         c.chip_name, c.wire_counter, c.wire_name_map)
  IN [text |-> HdlText(r.ret),
      warnings |-> c.warnings \o RenormalizeWarnings(c.components)]

Identifier(n) == <<"w">> \o IntStr(n)

\* the table holds one entry per allocation, of distinct keys, and the
\* identifiers are w1 .. w<counter>, each once
WireTableOk(counter, map) ==
  /\ Len(map) = counter
  /\ \A i, j \in DOMAIN map : map[i].k = map[j].k => i = j
  /\ \A i, j \in DOMAIN map : map[i].v = map[j].v => i = j
  /\ {map[i].v : i \in DOMAIN map} = {Identifier(n) : n \in 1..counter}

\* the counter has not decreased and every stored identifier is kept
WireTableKept(counter, map, counter2, map2) ==
  /\ counter2 >= counter
  /\ \A i \in DOMAIN map :
       DictHas(map2, map[i].k) /\ DictGet(map2, map[i].k) = map[i].v

\* the (component, pin) keys a call may be made with
WireKeys == {100, 101} \X {0, 2, 5}

\* the table after one more call of _get_or_create_wire_name, whatever its key
WireTableStep ==
  \A key \in WireKeys :
    LET st == GetOrCreateWireName(
                [wire_counter |-> wire_counter, wire_name_map |-> wire_name_map,
                 resolved |-> <<>>], key[1], key[2])
    IN /\ WireTableOk(st.wire_counter, st.wire_name_map)
       /\ WireTableKept(wire_counter, wire_name_map, st.wire_counter, st.wire_name_map)
       /\ DictHas(st.wire_name_map, key)
       /\ wire_counter = 0 => DictGet(st.wire_name_map, key) = Identifier(1)

\* C13: wire_name_map always holds wire_counter entries of distinct keys whose
\* identifiers are w1 .. w<wire_counter>, each once; this stays so after one
\* more _get_or_create_wire_name call with any key, the first allocation being
\* w1; and no step decreases wire_counter or changes a stored identifier.
C13_WireTable ==
  /\ [](WireTableOk(wire_counter, wire_name_map) /\ WireTableStep)
  /\ [][WireTableKept(wire_counter, wire_name_map, wire_counter', wire_name_map')]_vars

\* C13 witness: two keys hold w1 and w2 after a second convert() of the converter
C13_Witness ==
  /\ Len(hdl) = 2
  /\ wire_counter = 2
  /\ [i \in DOMAIN wire_name_map |-> wire_name_map[i].v] = <<Identifier(1), Identifier(2)>>
  /\ wire_name_map[1].k # wire_name_map[2].k

\* the connections of direction dir among cs, in their order
RECURSIVE ConnsOfDir(_, _)
ConnsOfDir(cs, dir) ==
  IF cs = <<>> THEN <<>>
  ELSE IF Head(cs).dir = dir THEN <<Head(cs)>> \o ConnsOfDir(Tail(cs), dir)
  ELSE ConnsOfDir(Tail(cs), dir)

\* the connections of direction dir in the entry e, in the order of the statement
ConnsOf(e, dir) == ConnsOfDir(e.conns, dir)

\* C14: for a component of a catalog type, the input parameters of its
\* statement are its input pins in the order in which the wire list first
\* names them, and the i-th of them, i below the catalog's input count, has
\* the catalog's i-th input name, whatever the pin ids are.
C14_InputsByPosition ==
  \A h \in DOMAIN hdl : \A i \in DOMAIN data.SubChips :
    LET sc == data.SubChips[i]
        type == NormalizeChipName(sc.Name)
        pins == FirstSeenPins(data.Wires, sc.ID, <<>>)
        ins == ConnsOf(EntryOf(h, sc.ID), "in")
    IN (type # None /\ is_valid_chip(type)) =>
         /\ [k \in DOMAIN ins |-> ins[k].pin] = pins
         /\ \A k \in DOMAIN ins :
              k <= Len(get_chip_spec(type).inputs) =>
                ins[k].param = get_chip_spec(type).inputs[k]

\* C14 witness: an And whose pin 2 is wired before its pin 0 has pin 2 as a
\* and pin 0 as b
C14_Witness ==
  \E i \in DOMAIN data.SubChips :
    /\ Len(hdl) >= 1
    /\ NormalizeChipName(data.SubChips[i].Name) = <<"A","n","d">>
    /\ FirstSeenPins(data.Wires, data.SubChips[i].ID, <<>>) = <<2, 0>>
    /\ LET ins == ConnsOf(EntryOf(1, data.SubChips[i].ID), "in")
       IN /\ ins[1].pin = 2 /\ ins[1].param = <<"a">>
          /\ ins[2].pin = 0 /\ ins[2].param = <<"b">>

\* the distinct source pins of the wires out of the component id, in the
\* order in which the wire list first names them
RECURSIVE FirstSeenSourcePins(_, _, _)
FirstSeenSourcePins(ws, id, seen) ==
  IF ws = <<>> THEN seen
  ELSE LET w == Head(ws)
       IN IF w.source_owner_id = id /\ \A i \in DOMAIN seen : seen[i] # w.source_pin_id
          THEN FirstSeenSourcePins(Tail(ws), id, Append(seen, w.source_pin_id))
          ELSE FirstSeenSourcePins(Tail(ws), id, seen)

\* the elements of the sequence s that are elements of the sequence t, in the order of s
RECURSIVE Among(_, _)
Among(s, t) ==
  IF s = <<>> THEN <<>>
  ELSE IF \E i \in DOMAIN t : t[i] = Head(s) THEN <<Head(s)>> \o Among(Tail(s), t)
  ELSE Among(Tail(s), t)

\* the pin ids of the OutputPinColourInfo of a sub-chip
DeclaredOutputOrder(sc) ==
  [i \in DOMAIN sc.OutputPinColourInfo |-> sc.OutputPinColourInfo[i].PinID]

\* C15: for a component of a catalog type, the output parameters of its
\* statement are the wired pins of its declared output order, in that order,
\* and the pin at position i of the declared order has the catalog's i-th
\* output name, whatever the wire order and the pin ids; with an empty
\* declared order the first-seen order of the output wires takes its place.
C15_OutputsByDeclaredOrder ==
  \A h \in DOMAIN hdl : \A i \in DOMAIN data.SubChips :
    LET sc == data.SubChips[i]
        type == NormalizeChipName(sc.Name)
        seen == FirstSeenSourcePins(data.Wires, sc.ID, <<>>)
        order == IF DeclaredOutputOrder(sc) # <<>> THEN DeclaredOutputOrder(sc) ELSE seen
        outs == ConnsOf(EntryOf(h, sc.ID), "out")
    IN (type # None /\ is_valid_chip(type)) =>
         /\ [k \in DOMAIN outs |-> outs[k].pin] = Among(order, seen)
         /\ \A k \in DOMAIN outs : \A p \in DOMAIN order :
              (order[p] = outs[k].pin /\ p <= Len(get_chip_spec(type).outputs)) =>
                outs[k].param = get_chip_spec(type).outputs[p]

\* C15 witness: a DMux that declares pin 5 before pin 2 and whose pin 2 is
\* wired first has pin 5 as a and pin 2 as b, in that order
C15_Witness ==
  \E i \in DOMAIN data.SubChips :
    /\ Len(hdl) >= 1
    /\ NormalizeChipName(data.SubChips[i].Name) = <<"D","M","u","x">>
    /\ DeclaredOutputOrder(data.SubChips[i]) = <<5, 2>>
    /\ FirstSeenSourcePins(data.Wires, data.SubChips[i].ID, <<>>) = <<2, 5>>
    /\ LET outs == ConnsOf(EntryOf(1, data.SubChips[i].ID), "out")
       IN /\ outs[1].pin = 5 /\ outs[1].param = <<"a">>
          /\ outs[2].pin = 2 /\ outs[2].param = <<"b">>

\* C16: a component whose raw type name is 8-1BIT or 1-8BIT normalizes to
\* None, and its entry in the body of every convert() is a skip marker.
C16_RemovedBusHelpers ==
  \A h \in DOMAIN hdl : \A i \in DOMAIN data.SubChips :
    data.SubChips[i].Name \in {s_8_1BIT, s_1_8BIT} =>
      /\ NormalizeChipName(data.SubChips[i].Name) = None
      /\ EntryOf(h, data.SubChips[i].ID).kind = "skipped"

\* the indices of the wires of the document whose target is (owner, pin)
WiresInto(owner, pin) ==
  {j \in DOMAIN data.Wires : /\ data.Wires[j].target_owner_id = owner
                             /\ data.Wires[j].target_pin_id = pin}

\* the (component, pin) pairs that are the target of two or more wires
FanInPins ==
  {key \in {<<data.Wires[j].target_owner_id, data.Wires[j].target_pin_id>> :
              j \in {k \in DOMAIN data.Wires : data.Wires[k].target_owner_id \in ComponentIds}} :
     Cardinality(WiresInto(key[1], key[2])) >= 2}

\* the first wire of the wire list whose target is (owner, pin)
FirstWireInto(owner, pin) ==
  data.Wires[CHOOSE j \in WiresInto(owner, pin) : \A k \in WiresInto(owner, pin) : j <= k]

\* the source expression of a wire once the pass has run: the name of the
\* top-level input, the identifier stored for the component output, or unknown
SourceExpression(wire) ==
  SourceName(input_pins, components, wire,
             [wire_counter |-> wire_counter, wire_name_map |-> wire_name_map,
              resolved |-> <<>>])

\* C17: for an input pin of a component that is the target of two or more
\* wires, the statement of the component has one parameter for the pin, its
\* expression is the source expression of the first of those wires in the
\* wire list, and no later wire to the pin is resolved.
C17_FanInKeepFirst ==
  \A h \in DOMAIN hdl : \A key \in FanInPins :
    LET e == EntryOf(h, key[1])
        first == FirstWireInto(key[1], key[2])
    IN e.kind # "skipped" =>
         /\ Cardinality({c \in DOMAIN e.conns :
                           e.conns[c].dir = "in" /\ e.conns[c].pin = key[2]}) = 1
         /\ \A c \in DOMAIN e.conns :
              (e.conns[c].dir = "in" /\ e.conns[c].pin = key[2]) =>
                e.conns[c].expr = SourceExpression(first)
         /\ \A j \in DOMAIN resolved[h] :
              (/\ resolved[h][j].wire.target_owner_id = key[1]
               /\ resolved[h][j].wire.target_pin_id = key[2])
                => resolved[h][j].wire = first

\* C17 witness: pin 0 of a Not is wired from the top-level input a and then
\* from a component, and the statement has in=a
C17_Witness ==
  /\ Len(hdl) >= 1
  /\ <<101, 0>> \in FanInPins
  /\ FirstWireInto(101, 0).source_owner_id = 1
  /\ \E j \in WiresInto(101, 0) : data.Wires[j].source_owner_id = 100
  /\ EntryOf(1, 101).kind = "part"
  /\ EntryOf(1, 101).type = <<"N","o","t">>
  /\ EntryOf(1, 101).conns[1] =
       [param |-> <<"i","n">>, expr |-> <<"a">>, dir |-> "in", pin |-> 0]

\* in, in1, in2, ... (out, out1, out2, ...): the name of the k-th pin, k from 1
GenericName(prefix, k) == IF k = 1 THEN prefix ELSE prefix \o IntStr(k - 1)

\* the position of x in the sequence s, from 1
PositionIn(s, x) == CHOOSE p \in DOMAIN s : s[p] = x

\* C18: a component whose normalized type is neither removed nor in the
\* catalog is not skipped and has a statement when it has a parameter to
\* emit; its input parameters are its first-seen input pins, named in, in1,
\* in2, ... in that order, and an output pin that is the k-th first-seen one
\* is named out for k = 1 and out<k-1> after.
C18_GenericPinNames ==
  \A h \in DOMAIN hdl : \A i \in DOMAIN data.SubChips :
    LET sc == data.SubChips[i]
        type == NormalizeChipName(sc.Name)
        e == EntryOf(h, sc.ID)
        pins == FirstSeenPins(data.Wires, sc.ID, <<>>)
        seen == FirstSeenSourcePins(data.Wires, sc.ID, <<>>)
        order == IF DeclaredOutputOrder(sc) # <<>> THEN DeclaredOutputOrder(sc) ELSE seen
        ins == ConnsOf(e, "in")
        outs == ConnsOf(e, "out")
    IN (type # None /\ ~is_valid_chip(type)) =>
         /\ e.kind # "skipped"
         /\ e.type = type
         /\ (pins # <<>> \/ Among(order, seen) # <<>>) => e.kind = "part"
         /\ [k \in DOMAIN ins |-> ins[k].pin] = pins
         /\ \A k \in DOMAIN ins : ins[k].param = GenericName(<<"i","n">>, k)
         /\ [k \in DOMAIN outs |-> outs[k].pin] = Among(order, seen)
         /\ \A k \in DOMAIN outs :
              outs[k].param = GenericName(<<"o","u","t">>, PositionIn(seen, outs[k].pin))

\* C18 witness: an Adder whose output pin 2 is wired before its output pin 5
\* has a statement with pin 2 as out and pin 5 as out1
C18_Witness ==
  \E i \in DOMAIN data.SubChips :
    /\ Len(hdl) >= 1
    /\ data.SubChips[i].Name = s_Adder
    /\ FirstSeenSourcePins(data.Wires, data.SubChips[i].ID, <<>>) = <<2, 5>>
    /\ EntryOf(1, data.SubChips[i].ID).kind = "part"
    /\ \E c, d \in DOMAIN EntryOf(1, data.SubChips[i].ID).conns :
         LET cs == EntryOf(1, data.SubChips[i].ID).conns
         IN /\ cs[c].dir = "out" /\ cs[c].pin = 2 /\ cs[c].param = <<"o","u","t">>
            /\ cs[d].dir = "out" /\ cs[d].pin = 5 /\ cs[d].param = <<"o","u","t","1">>

\* C19: for a component whose type is neither removed nor in the catalog the
\* normalizer returns the name as cleaned, and after convert() the warnings
\* hold no entry that names the type; when the module's own name is in the
\* catalog and no component has more pins than its catalog entry, the
\* warnings are empty.
C19_CustomTypeNoDiagnostic ==
  \A h \in DOMAIN hdl : \A i \in DOMAIN data.SubChips :
    LET type == NormalizeChipName(data.SubChips[i].Name)
    IN (type # None /\ ~is_valid_chip(type)) =>
         /\ type = CleanName(data.SubChips[i].Name)
         /\ \A j \in DOMAIN warnings : warnings[j].chip # type
         /\ (/\ is_valid_chip(chip_name)
             /\ \A j \in DOMAIN warnings : warnings[j].kind \notin {"inputs", "outputs"}
             /\ \A k \in DOMAIN data.SubChips :
                  NormalizeChipName(data.SubChips[k].Name) # None)
              => warnings = <<>>

\* C20: an identifier of wire_name_map that is the expression of an input
\* parameter of some statement is also the expression of an output parameter
\* in the entry of the component that produces it.
C20_NoDanglingSignal ==
  \A h \in DOMAIN hdl : \A i \in DOMAIN hdl[h].parts :
    \A c \in DOMAIN hdl[h].parts[i].conns : \A j \in DOMAIN wire_name_map :
      LET conn == hdl[h].parts[i].conns[c]
          producer == EntryOf(h, wire_name_map[j].k[1])
      IN (conn.dir = "in" /\ conn.expr = wire_name_map[j].v) =>
           \E d \in DOMAIN producer.conns :
             /\ producer.conns[d].dir = "out"
             /\ producer.conns[d].pin = wire_name_map[j].k[2]
             /\ producer.conns[d].expr = conn.expr

\* C21: the input names that _generate_hdl_signature declares (without the
\* bus width) are pairwise distinct.
C21_SignatureNamesUnique ==
  \A h \in DOMAIN hdl :
    LET names == SignatureInputNames(input_pins, <<>>, <<>>)
    IN /\ hdl[h].in_sig =
            JoinComma([i \in DOMAIN names |-> Declaration(names[i], input_pins[i].v.BitCount)])
       /\ \A i, j \in DOMAIN names : names[i] = names[j] => i = j

\* C22: in the statement of a component, every output pin that is the source
\* of a wire is the pin of exactly one output parameter.
C22_NoOutputLost ==
  \A h \in DOMAIN hdl : \A key \in SourceKeys :
    LET e == EntryOf(h, key[1])
    IN e.kind = "part" =>
         Cardinality({c \in DOMAIN e.conns :
                        e.conns[c].dir = "out" /\ e.conns[c].pin = key[2]}) = 1

\* C23: every convert() of a converter returns the text of its first
\* convert(), and a convert() after the first leaves wire_name_map and
\* wire_counter as they were.
C23_ConvertRepeatable ==
  /\ [](\A h \in DOMAIN hdl : HdlText(hdl[h]) = HdlText(hdl[1]))
  /\ [][Len(hdl) >= 1 =>
          (wire_name_map' = wire_name_map /\ wire_counter' = wire_counter)]_vars

\* C23 witness: a second convert() was made on a converter whose first one
\* allocated two identifiers, and its statements use them
C23_Witness ==
  /\ Len(hdl) = 2
  /\ wire_counter = 2
  /\ \E i \in DOMAIN hdl[2].parts : \E c \in DOMAIN hdl[2].parts[i].conns :
       hdl[2].parts[i].conns[c].expr = Identifier(2)

\* C24: every text that convert() returns on an AdvancedConverter, whether or
\* not generate_detailed_report() was called on it before, is the text that
\* convert() returns on a converter newly built from the same document.
C24_ReportDoesNotAffectConvert ==
  LET c == AdvancedConverter(data)
      alone == AdvConvertResult(c.data, c.input_pins, c.output_pins, c.components,
                                c.chip_name, c.wire_counter, c.wire_name_map)
  IN \A h \in DOMAIN hdl : hdl[h] = alone.ret
====
